---- MODULE Spec2Model ----
(***************************************************************************)
(* A model of the iavl-rs versioned AVL tree (IAVLTree, Node), of its      *)
(* range iterator (TreeIterator), of the logged tree (IAVLDB), and of the  *)
(* staging store (Overlay) over a MemTree, IAVLTree or IAVLDB parent with  *)
(* its merging iterator (MergeIter).                                       *)
(*                                                                         *)
(* Byte strings are modelled by small naturals: a key k stands for the     *)
(* one-byte string <<k>>, so lexicographic order is numeric order.         *)
(* Option<T> is modelled by a sequence: None is <<>>, Some(x) is <<x>>.    *)
(* SHA-256 is modelled as a collision-free function: a digest is the byte  *)
(* sequence that was fed to the hasher, so two digests are equal exactly   *)
(* when their inputs are equal.                                            *)
(***************************************************************************)
EXTENDS Integers, Sequences, FiniteSets, TLC

\* ---------------------------------------------------------------- bounds
\* Spec: structural exploration, every key is stored with itself as value
\* (tree.rs test_key_index stores i under key i)
MaxKey == 5
MaxOps == 6
\* SpecDeep: the same operations, one operation deeper
MaxOpsDeep == 7
\* SpecV: fewer keys, several values per key
\* SpecTwin: the same keys, the second tree starts at either version
MaxKeyV == 3
MaxVal == 2
MaxOpsV == 5
\* SpecDB: the logged tree
MaxKeyDB == 2
MaxBatch == 2
MaxOpsDB == 4
\* SpecR: trees built by set and remove only, read by range with every bounds
MaxKeyR == 5
MaxOpsR == 6
\* SpecLog: the logged tree with its direct writes, one change per batch
MaxKeyL == 2
MaxOpsL == 5
\* SpecOv, SpecOvDB: an Overlay over a MemTree, an IAVLTree or an IAVLDB
MaxKeyO == 2
MaxOpsO == 5
\* SpecMerge: MergeIter over every pair of ascending inputs
MaxKeyM == 3
\* SpecHist: the tree with the history of what its save_version calls returned
MaxKeyH == 2
MaxOpsH == 6
\* SpecUpd: the same history, with values that differ from the keys
MaxOpsU == 5
\* SpecSib: deep trees with their history
MaxOpsS == 6
\* SpecBatch: one tree written by batches, one by single calls
MaxKeyB == 2
MaxBatchB == 2
MaxOpsB == 2
\* SpecTx: u64 and U256 narrowed to 0..MaxNonce and 0..MaxBalance
MaxNonce == 1
MaxBalance == 2
MaxOpsT == 3
MaxKeyI == 3
MaxOpsI == 3

Keys == 1..MaxKey
KeysV == 1..MaxKeyV
KeysDB == 1..MaxKeyDB
KeysR == 1..MaxKeyR
KeysL == 1..MaxKeyL
KeysO == 1..MaxKeyO
KeysM == 1..MaxKeyM
KeysH == 1..MaxKeyH
KeysB == 1..MaxKeyB
Values == 1..MaxVal

\* tree.rs test_hash_vector: tree_initial_version.version = 100 - 1
InitialVersion == 99

VARIABLES
    root,       \* IAVLTree.root : Option<Box<Node>>    (tree.rs, struct IAVLTree)
    version,    \* IAVLTree.version                     (tree.rs, struct IAVLTree)
    result,     \* the hash returned by the last root_hash / save_version
    root2,      \* a second IAVLTree instance fed the same operations
    version2,
    result2,
    ref,        \* reference ordered map: key -> Option<value>
    lastOp,     \* the last operation applied and its arguments
    nops,       \* number of operations applied so far
    wal,        \* IAVLDB.wal : the log, a sequence of Entry
    pending,    \* IAVLDB.pending_changes
    before,     \* what the DB answered just before it was last closed
    fatal,      \* the process ended in a panic
    mem,        \* MemTree.tree : BTreeMap key -> value            (mem.rs)
    overlay,    \* Overlay: the kind of its parent and Overlay.tree (overlay.rs)
    stagedRef,  \* reference: the last call staged on each key since the overlay was emptied
    merge,      \* a MergeIter run: its two inputs, what is left of them, what it yielded
    commits,    \* history: what each recorded save_version returned and left stored
    reward,     \* execute_block: the fees collected so far by the block being executed
    iter        \* a TreeIterator over root: its stack and bounds, and what each call returned

treevars == <<root, version, result, root2, version2, result2, ref, lastOp, nops>>
dbvars == <<wal, pending, before, fatal>>
ovvars == <<mem, overlay, stagedRef>>
vars == <<root, version, result, root2, version2, result2, ref, lastOp, nops,
          wal, pending, before, fatal, mem, overlay, stagedRef, merge, commits, reward, iter>>

None == <<>>
Some(x) == <<x>>

\* ------------------------------------------------------------- encodings
\* integer_encoding: unsigned LEB128 varint
RECURSIVE VarintBytes(_)
VarintBytes(u) ==
    IF u < 128 THEN <<u>>
    ELSE <<(u % 128) + 128>> \o VarintBytes(u \div 128)

\* integer_encoding: i64 is zigzag-encoded before the varint (n >= 0 here)
EncodeVarI64(n) == VarintBytes(2 * n)

\* Sha256::digest(bytes), collision-free: the digest is its input
Sha256Digest(bytes) == bytes

EMPTY_HASH == Sha256Digest(<<>>)

hash_bytes(bytes) == VarintBytes(Len(bytes)) \o bytes

\* ------------------------------------------------------------------ Node
leaf(key, value, ver) ==
    [height |-> 0, size |-> 1, version |-> ver, key |-> key, value |-> value,
     left |-> None, right |-> None, hash |-> None]

branch_bottom(l, r, ver) ==
    [height |-> 1, size |-> 2, version |-> ver, key |-> r.key, value |-> 0,
     left |-> Some(l), right |-> Some(r), hash |-> None]

Max(a, b) == IF a >= b THEN a ELSE b

\* mutant of update_height_size: the size is left as it was
update_height_only(n) ==
    LET l == n.left[1]
        r == n.right[1]
    IN [n EXCEPT !.height = Max(l.height, r.height) + 1]

update_height_size(n) ==
    LET l == n.left[1]
        r == n.right[1]
    IN [n EXCEPT !.height = Max(l.height, r.height) + 1,
                 !.size = l.size + r.size]

is_leaf(n) == n.height = 0

balance_factor(n) ==
    LET left_height == IF n.left = None THEN 0 ELSE n.left[1].height
        right_height == IF n.right = None THEN 0 ELSE n.right[1].height
    IN left_height - right_height

mutate(n, ver) == [n EXCEPT !.version = ver, !.hash = None]

\* mutant of hash_input: the node's version is left out of the hash
hash_input_noversion(n) ==
    EncodeVarI64(n.height) \o EncodeVarI64(n.size) \o
    (IF is_leaf(n)
     THEN hash_bytes(<<n.key>>) \o hash_bytes(Sha256Digest(<<n.value>>))
     ELSE hash_bytes(n.left[1].hash[1]) \o hash_bytes(n.right[1].hash[1]))

\* hash_node's hasher input, given the (already hashed) children
hash_input(n) ==
    EncodeVarI64(n.height) \o EncodeVarI64(n.size) \o EncodeVarI64(n.version) \o
    (IF is_leaf(n)
     THEN hash_bytes(<<n.key>>) \o hash_bytes(Sha256Digest(<<n.value>>))
     ELSE hash_bytes(n.left[1].hash[1]) \o hash_bytes(n.right[1].hash[1]))

\* update_hash with hash_node inlined: children are visited only when the
\* node itself has no cached hash
RECURSIVE update_hash(_)
update_hash(n) ==
    IF n.hash # None THEN n
    ELSE IF is_leaf(n) THEN [n EXCEPT !.hash = Some(Sha256Digest(hash_input(n)))]
    ELSE LET m == [n EXCEPT !.left = Some(update_hash(n.left[1])),
                            !.right = Some(update_hash(n.right[1]))]
         IN [m EXCEPT !.hash = Some(Sha256Digest(hash_input(m)))]

\* mutant of get_with_index: a key equal to the separator is routed left
RECURSIVE get_with_index_le(_, _)
get_with_index_le(n, key) ==
    IF is_leaf(n) THEN
        IF n.key < key THEN <<None, 1>>
        ELSE IF n.key > key THEN <<None, 0>>
        ELSE <<Some(n.value), 0>>
    ELSE IF key <= n.key THEN get_with_index_le(n.left[1], key)
    ELSE LET r == n.right[1]
             vi == get_with_index_le(r, key)
         IN <<vi[1], vi[2] + n.size - r.size>>

RECURSIVE get_with_index(_, _)
get_with_index(n, key) ==
    IF is_leaf(n) THEN
        IF n.key < key THEN <<None, 1>>
        ELSE IF n.key > key THEN <<None, 0>>
        ELSE <<Some(n.value), 0>>
    ELSE IF key < n.key THEN get_with_index(n.left[1], key)
    ELSE LET r == n.right[1]
             vi == get_with_index(r, key)
         IN <<vi[1], vi[2] + n.size - r.size>>

\* mutant of get_by_index: an index equal to the left size still goes left
RECURSIVE get_by_index_le(_, _)
get_by_index_le(n, index) ==
    IF is_leaf(n) THEN
        IF index = 0 THEN Some(<<n.key, n.value>>) ELSE None
    ELSE LET l == n.left[1]
         IN IF index <= l.size THEN get_by_index_le(l, index)
            ELSE get_by_index_le(n.right[1], index - l.size)

\* Node::get_by_index: returns Option<<<key, value>>>
RECURSIVE get_by_index(_, _)
get_by_index(n, index) ==
    IF is_leaf(n) THEN
        IF index = 0 THEN Some(<<n.key, n.value>>) ELSE None
    ELSE LET l == n.left[1]
         IN IF index < l.size THEN get_by_index(l, index)
            ELSE get_by_index(n.right[1], index - l.size)

\* -------------------------------------------------------------- rotations
\* mutant of rotate_right: the demoted node keeps its old height and size
rotate_right_stale(a, ver) ==
    LET b == a.left[1]
        t2 == b.right
        a1 == [a EXCEPT !.left = t2]
        b1 == mutate(b, ver)
    IN update_height_size([b1 EXCEPT !.right = Some(a1)])

rotate_right(a, ver) ==
    LET b == a.left[1]
        t2 == b.right
        a1 == update_height_size([a EXCEPT !.left = t2])
        b1 == mutate(b, ver)
    IN update_height_size([b1 EXCEPT !.right = Some(a1)])

rotate_left(a, ver) ==
    LET b == a.right[1]
        t2 == b.left
        a1 == update_height_size([a EXCEPT !.right = t2])
        b1 == mutate(b, ver)
    IN update_height_size([b1 EXCEPT !.left = Some(a1)])

\* mutant of balance: the double rotations are replaced by single ones
balance_single(node, ver) ==
    LET bf == balance_factor(node)
    IN IF bf > 1 THEN rotate_right(mutate(node, ver), ver)
       ELSE IF bf < -1 THEN rotate_left(mutate(node, ver), ver)
       ELSE node

balance(node, ver) ==
    LET bf == balance_factor(node)
    IN IF bf > 1 THEN
           LET n == mutate(node, ver)
           IN IF balance_factor(n.left[1]) >= 0
              THEN rotate_right(n, ver)
              ELSE rotate_right(
                       [n EXCEPT !.left = Some(rotate_left(mutate(n.left[1], ver), ver))],
                       ver)
       ELSE IF bf < -1 THEN
           LET n == mutate(node, ver)
           IN IF balance_factor(n.right[1]) <= 0
              THEN rotate_left(n, ver)
              ELSE rotate_left(
                       [n EXCEPT !.right = Some(rotate_right(n.right[1], ver))],
                       ver)
       ELSE node

\* ------------------------------------------------------ insert and remove
\* mutant of insert_recursive: a greater key becomes the left leaf
RECURSIVE insert_recursive_swapped(_, _, _, _)
insert_recursive_swapped(node, key, value, ver) ==
    IF is_leaf(node) THEN
        IF key < node.key
        THEN <<branch_bottom(leaf(key, value, ver), node, ver), FALSE>>
        ELSE IF key > node.key
        THEN <<branch_bottom(leaf(key, value, ver), node, ver), FALSE>>
        ELSE <<[mutate(node, ver) EXCEPT !.value = value], TRUE>>
    ELSE
        LET m == mutate(node, ver)
            goLeft == key < m.key
            r == insert_recursive_swapped(IF goLeft THEN m.left[1] ELSE m.right[1],
                                          key, value, ver)
            n1 == IF goLeft THEN [m EXCEPT !.left = Some(r[1])]
                            ELSE [m EXCEPT !.right = Some(r[1])]
        IN IF r[2] THEN <<n1, TRUE>>
           ELSE <<balance(update_height_size(n1), ver), FALSE>>

\* mutant of insert_recursive: an inner node is marked mutated only when the
\* subtree below it changed shape
RECURSIVE insert_recursive_latemutate(_, _, _, _)
insert_recursive_latemutate(node, key, value, ver) ==
    IF is_leaf(node) THEN
        IF key < node.key
        THEN <<branch_bottom(leaf(key, value, ver), node, ver), FALSE>>
        ELSE IF key > node.key
        THEN <<branch_bottom(node, leaf(key, value, ver), ver), FALSE>>
        ELSE <<[mutate(node, ver) EXCEPT !.value = value], TRUE>>
    ELSE
        LET goLeft == key < node.key
            r == insert_recursive_latemutate(
                     IF goLeft THEN node.left[1] ELSE node.right[1], key, value, ver)
            n1 == IF goLeft THEN [node EXCEPT !.left = Some(r[1])]
                            ELSE [node EXCEPT !.right = Some(r[1])]
        IN IF r[2] THEN <<n1, TRUE>>
           ELSE <<balance(update_height_size(mutate(n1, ver)), ver), FALSE>>

\* mutant of insert_recursive: an update stores the value without marking the
\* leaf mutated
RECURSIVE insert_recursive_keephash(_, _, _, _)
insert_recursive_keephash(node, key, value, ver) ==
    IF is_leaf(node) THEN
        IF key < node.key
        THEN <<branch_bottom(leaf(key, value, ver), node, ver), FALSE>>
        ELSE IF key > node.key
        THEN <<branch_bottom(node, leaf(key, value, ver), ver), FALSE>>
        ELSE <<[node EXCEPT !.value = value], TRUE>>
    ELSE
        LET m == mutate(node, ver)
            goLeft == key < m.key
            r == insert_recursive_keephash(IF goLeft THEN m.left[1] ELSE m.right[1],
                                           key, value, ver)
            n1 == IF goLeft THEN [m EXCEPT !.left = Some(r[1])]
                            ELSE [m EXCEPT !.right = Some(r[1])]
        IN IF r[2] THEN <<n1, TRUE>>
           ELSE <<balance(update_height_size(n1), ver), FALSE>>

\* returns <<node, updated>>
RECURSIVE insert_recursive(_, _, _, _)
insert_recursive(node, key, value, ver) ==
    IF is_leaf(node) THEN
        IF key < node.key
        THEN <<branch_bottom(leaf(key, value, ver), node, ver), FALSE>>
        ELSE IF key > node.key
        THEN <<branch_bottom(node, leaf(key, value, ver), ver), FALSE>>
        ELSE <<[mutate(node, ver) EXCEPT !.value = value], TRUE>>
    ELSE
        LET m == mutate(node, ver)
            goLeft == key < m.key
            r == insert_recursive(IF goLeft THEN m.left[1] ELSE m.right[1],
                                  key, value, ver)
            n1 == IF goLeft THEN [m EXCEPT !.left = Some(r[1])]
                            ELSE [m EXCEPT !.right = Some(r[1])]
        IN IF r[2] THEN <<n1, TRUE>>
           ELSE <<balance(update_height_size(n1), ver), FALSE>>

\* mutant of remove_recursive: the bubbled-up key is not adopted as separator
RECURSIVE remove_recursive_keepkey(_, _, _)
remove_recursive_keepkey(node, key, ver) ==
    IF is_leaf(node) THEN
        IF key = node.key THEN <<TRUE, None, None>>
        ELSE <<FALSE, Some(node), None>>
    ELSE IF key < node.key THEN
        LET r == remove_recursive_keepkey(node.left[1], key, ver)
        IN IF ~r[1] THEN <<FALSE, Some([node EXCEPT !.left = r[2]]), None>>
           ELSE IF r[2] # None THEN
               LET n1 == [mutate(node, ver) EXCEPT !.left = r[2]]
               IN <<TRUE, Some(balance(update_height_size(n1), ver)), r[3]>>
           ELSE <<TRUE, node.right, Some(node.key)>>
    ELSE
        LET r == remove_recursive_keepkey(node.right[1], key, ver)
        IN IF ~r[1] THEN <<FALSE, Some([node EXCEPT !.right = r[2]]), None>>
           ELSE IF r[2] # None THEN
               LET n1 == [mutate(node, ver) EXCEPT !.right = r[2]]
               IN <<TRUE, Some(balance(update_height_size(n1), ver)), None>>
           ELSE <<TRUE, node.left, None>>

\* mutant of remove_recursive: an inner node is marked mutated on the way down,
\* whether or not the key is found below it
RECURSIVE remove_recursive_touch(_, _, _)
remove_recursive_touch(node, key, ver) ==
    IF is_leaf(node) THEN
        IF key = node.key THEN <<TRUE, None, None>>
        ELSE <<FALSE, Some(node), None>>
    ELSE IF key < node.key THEN
        LET r == remove_recursive_touch(node.left[1], key, ver)
        IN IF ~r[1] THEN <<FALSE, Some([mutate(node, ver) EXCEPT !.left = r[2]]), None>>
           ELSE IF r[2] # None THEN
               LET n1 == [mutate(node, ver) EXCEPT !.left = r[2]]
               IN <<TRUE, Some(balance(update_height_size(n1), ver)), r[3]>>
           ELSE <<TRUE, node.right, Some(node.key)>>
    ELSE
        LET r == remove_recursive_touch(node.right[1], key, ver)
        IN IF ~r[1] THEN <<FALSE, Some([mutate(node, ver) EXCEPT !.right = r[2]]), None>>
           ELSE IF r[2] # None THEN
               LET n1 == [mutate(node, ver) EXCEPT !.right = r[2]]
                   n2 == IF r[3] # None THEN [n1 EXCEPT !.key = r[3][1]] ELSE n1
               IN <<TRUE, Some(balance(update_height_size(n2), ver)), None>>
           ELSE <<TRUE, node.left, None>>

\* mutant of remove_recursive: the sibling that replaces the parent is marked
\* mutated
RECURSIVE remove_recursive_stampsibling(_, _, _)
remove_recursive_stampsibling(node, key, ver) ==
    IF is_leaf(node) THEN
        IF key = node.key THEN <<TRUE, None, None>>
        ELSE <<FALSE, Some(node), None>>
    ELSE IF key < node.key THEN
        LET r == remove_recursive_stampsibling(node.left[1], key, ver)
        IN IF ~r[1] THEN <<FALSE, Some([node EXCEPT !.left = r[2]]), None>>
           ELSE IF r[2] # None THEN
               LET n1 == [mutate(node, ver) EXCEPT !.left = r[2]]
               IN <<TRUE, Some(balance(update_height_size(n1), ver)), r[3]>>
           ELSE <<TRUE, Some(mutate(node.right[1], ver)), Some(node.key)>>
    ELSE
        LET r == remove_recursive_stampsibling(node.right[1], key, ver)
        IN IF ~r[1] THEN <<FALSE, Some([node EXCEPT !.right = r[2]]), None>>
           ELSE IF r[2] # None THEN
               LET n1 == [mutate(node, ver) EXCEPT !.right = r[2]]
                   n2 == IF r[3] # None THEN [n1 EXCEPT !.key = r[3][1]] ELSE n1
               IN <<TRUE, Some(balance(update_height_size(n2), ver)), None>>
           ELSE <<TRUE, Some(mutate(node.left[1], ver)), None>>

\* returns <<found, Option<node>, Option<new key>>>
RECURSIVE remove_recursive(_, _, _)
remove_recursive(node, key, ver) ==
    IF is_leaf(node) THEN
        IF key = node.key THEN <<TRUE, None, None>>
        ELSE <<FALSE, Some(node), None>>
    ELSE IF key < node.key THEN
        LET r == remove_recursive(node.left[1], key, ver)
        IN IF ~r[1] THEN <<FALSE, Some([node EXCEPT !.left = r[2]]), None>>
           ELSE IF r[2] # None THEN
               LET n1 == [mutate(node, ver) EXCEPT !.left = r[2]]
               IN <<TRUE, Some(balance(update_height_size(n1), ver)), r[3]>>
           ELSE <<TRUE, node.right, Some(node.key)>>
    ELSE
        LET r == remove_recursive(node.right[1], key, ver)
        IN IF ~r[1] THEN <<FALSE, Some([node EXCEPT !.right = r[2]]), None>>
           ELSE IF r[2] # None THEN
               LET n1 == [mutate(node, ver) EXCEPT !.right = r[2]]
                   n2 == IF r[3] # None THEN [n1 EXCEPT !.key = r[3][1]] ELSE n1
               IN <<TRUE, Some(balance(update_height_size(n2), ver)), None>>
           ELSE <<TRUE, node.left, None>>

\* -------------------------------------------------------------- IAVLTree
\* mutant of root_hash: the empty tree answers with the digest of one zero byte
root_hash_zerobyte(rt) ==
    IF rt = None THEN <<rt, Sha256Digest(<<0>>)>>
    ELSE LET n == update_hash(rt[1]) IN <<Some(n), n.hash[1]>>

\* IAVLTree::root_hash: returns <<root with hashes cached, hash>>
root_hash(rt) ==
    IF rt = None THEN <<rt, EMPTY_HASH>>
    ELSE LET n == update_hash(rt[1]) IN <<Some(n), n.hash[1]>>

get(rt, key) == IF rt = None THEN None ELSE get_with_index(rt[1], key)[1]

\* IAVLTree::get_by_index
IAVLTree_get_by_index(rt, index) ==
    IF rt = None THEN None ELSE get_by_index(rt[1], index)

\* mutant of IAVLTree_get_with_index: a stored key is reported with its
\* 1-based rank
IAVLTree_get_with_index_rank(rt, key) ==
    IF rt = None THEN <<None, 0>>
    ELSE LET vi == get_with_index(rt[1], key)
         IN IF vi[1] # None THEN <<vi[1], vi[2] + 1>> ELSE vi

\* IAVLTree::get_with_index: returns <<Option<value>, index>>
IAVLTree_get_with_index(rt, key) ==
    IF rt = None THEN <<None, 0>> ELSE get_with_index(rt[1], key)

\* mutant of set: the write is stamped one version too far ahead
set_ahead(rt, ver, key, value) ==
    IF rt # None THEN Some(insert_recursive(rt[1], key, value, ver + 2)[1])
    ELSE Some(leaf(key, value, ver + 2))

set(rt, ver, key, value) ==
    IF rt # None THEN Some(insert_recursive(rt[1], key, value, ver + 1)[1])
    ELSE Some(leaf(key, value, ver + 1))

remove(rt, ver, key) ==
    IF rt # None THEN remove_recursive(rt[1], key, ver + 1)[2]
    ELSE rt


\* mutant of write_batch: the entries are applied from the last to the first
RECURSIVE write_batch_reversed(_, _, _)
write_batch_reversed(rt, ver, batch) ==
    IF batch = <<>> THEN rt
    ELSE LET item == Head(batch)
             rt1 == write_batch_reversed(rt, ver, Tail(batch))
         IN IF item[2] # None THEN set(rt1, ver, item[1], item[2][1])
            ELSE remove(rt1, ver, item[1])

\* KVStore::write_batch, default implementation: each entry in order.
\* A ChangeItem is <<key, Option<value>>>.
RECURSIVE write_batch(_, _, _)
write_batch(rt, ver, batch) ==
    IF batch = <<>> THEN rt
    ELSE LET item == Head(batch)
             rt1 == IF item[2] # None THEN set(rt, ver, item[1], item[2][1])
                    ELSE remove(rt, ver, item[1])
         IN write_batch(rt1, ver, Tail(batch))

\* ---------------------------------------------------------- TreeIterator
Unbounded == [kind |-> "Unbounded", key |-> 0]
Included(k) == [kind |-> "Included", key |-> k]
Excluded(k) == [kind |-> "Excluded", key |-> k]

start_bound_contains(bound, key) ==
    IF bound.kind = "Included" THEN key >= bound.key
    ELSE IF bound.kind = "Excluded" THEN key > bound.key
    ELSE TRUE

start_bound_contains_exclusive(bound, key) ==
    IF bound.kind = "Unbounded" THEN TRUE ELSE key > bound.key

end_bound_contains(bound, key) ==
    IF bound.kind = "Included" THEN key <= bound.key
    ELSE IF bound.kind = "Excluded" THEN key < bound.key
    ELSE TRUE

\* TreeIterator::new: the stack holds the root, if any (top of stack = last)
TreeIterator_new(rt) == IF rt # None THEN <<rt[1]>> ELSE <<>>

\* TreeIterator::next: returns <<Option<<<key, value>>>, stack>>
RECURSIVE TreeIterator_next(_, _, _)
TreeIterator_next(stack, lo, hi) ==
    IF stack = <<>> THEN <<None, stack>>
    ELSE LET node == stack[Len(stack)]
             rest == SubSeq(stack, 1, Len(stack) - 1)
         IN IF is_leaf(node) THEN
                IF start_bound_contains(lo, node.key) /\ end_bound_contains(hi, node.key)
                THEN <<Some(<<node.key, node.value>>), rest>>
                ELSE TreeIterator_next(rest, lo, hi)
            ELSE
                LET s1 == IF end_bound_contains(hi, node.key)
                          THEN Append(rest, node.right[1]) ELSE rest
                    s2 == IF start_bound_contains_exclusive(lo, node.key)
                          THEN Append(s1, node.left[1]) ELSE s1
                IN TreeIterator_next(s2, lo, hi)

\* the items a forward-driven iterator yields until it returns None
RECURSIVE CollectForward(_, _, _)
CollectForward(stack, lo, hi) ==
    LET r == TreeIterator_next(stack, lo, hi)
    IN IF r[1] = None THEN <<>>
       ELSE <<r[1][1]>> \o CollectForward(r[2], lo, hi)

\* IAVLTree::range(bounds) driven forward to the end
range(rt, lo, hi) == CollectForward(TreeIterator_new(rt), lo, hi)

\* mutant of TreeIterator_next_back: the end bound decides about the left
\* child and the start bound about the right child
RECURSIVE TreeIterator_next_back_swapped(_, _, _)
TreeIterator_next_back_swapped(stack, lo, hi) ==
    IF stack = <<>> THEN <<None, stack>>
    ELSE LET node == stack[Len(stack)]
             rest == SubSeq(stack, 1, Len(stack) - 1)
         IN IF is_leaf(node) THEN
                IF start_bound_contains(lo, node.key) /\ end_bound_contains(hi, node.key)
                THEN <<Some(<<node.key, node.value>>), rest>>
                ELSE TreeIterator_next_back_swapped(rest, lo, hi)
            ELSE
                LET s1 == IF end_bound_contains(hi, node.key)
                          THEN Append(rest, node.left[1]) ELSE rest
                    s2 == IF start_bound_contains_exclusive(lo, node.key)
                          THEN Append(s1, node.right[1]) ELSE s1
                IN TreeIterator_next_back_swapped(s2, lo, hi)

\* TreeIterator::next_back: returns <<Option<<<key, value>>>, stack>>
RECURSIVE TreeIterator_next_back(_, _, _)
TreeIterator_next_back(stack, lo, hi) ==
    IF stack = <<>> THEN <<None, stack>>
    ELSE LET node == stack[Len(stack)]
             rest == SubSeq(stack, 1, Len(stack) - 1)
         IN IF is_leaf(node) THEN
                IF start_bound_contains(lo, node.key) /\ end_bound_contains(hi, node.key)
                THEN <<Some(<<node.key, node.value>>), rest>>
                ELSE TreeIterator_next_back(rest, lo, hi)
            ELSE
                LET s1 == IF start_bound_contains_exclusive(lo, node.key)
                          THEN Append(rest, node.left[1]) ELSE rest
                    s2 == IF end_bound_contains(hi, node.key)
                          THEN Append(s1, node.right[1]) ELSE s1
                IN TreeIterator_next_back(s2, lo, hi)

\* the items a backward-only iteration yields until it returns None
RECURSIVE CollectBackward(_, _, _)
CollectBackward(stack, lo, hi) ==
    LET r == TreeIterator_next_back(stack, lo, hi)
    IN IF r[1] = None THEN <<>>
       ELSE <<r[1][1]>> \o CollectBackward(r[2], lo, hi)

\* ------------------------------------------------- observing the rebalance
\* Which rotation cases balance() takes on a node (observer for witnesses).
RotationCase(node) ==
    LET bf == balance_factor(node)
    IN IF bf > 1 THEN
           (IF balance_factor(node.left[1]) >= 0 THEN {"right"} ELSE {"left-right"})
       ELSE IF bf < -1 THEN
           (IF balance_factor(node.right[1]) <= 0 THEN {"left"} ELSE {"right-left"})
       ELSE {}

\* the rotation cases taken while set(key) runs on the subtree
RECURSIVE InsertRotations(_, _, _, _)
InsertRotations(node, key, value, ver) ==
    IF is_leaf(node) THEN {}
    ELSE LET goLeft == key < node.key
             child == IF goLeft THEN node.left[1] ELSE node.right[1]
             r == insert_recursive(child, key, value, ver)
             n1 == IF goLeft THEN [node EXCEPT !.left = Some(r[1])]
                             ELSE [node EXCEPT !.right = Some(r[1])]
         IN InsertRotations(child, key, value, ver) \cup
            (IF r[2] THEN {} ELSE RotationCase(update_height_size(n1)))

\* the rotation cases taken while remove(key) runs on the subtree
RECURSIVE RemoveRotations(_, _, _)
RemoveRotations(node, key, ver) ==
    IF is_leaf(node) THEN {}
    ELSE LET goLeft == key < node.key
             child == IF goLeft THEN node.left[1] ELSE node.right[1]
             r == remove_recursive(child, key, ver)
             n1 == IF goLeft THEN [node EXCEPT !.left = r[2]]
                             ELSE [node EXCEPT !.right = r[2]]
             n2 == IF ~goLeft /\ r[3] # None THEN [n1 EXCEPT !.key = r[3][1]] ELSE n1
         IN RemoveRotations(child, key, ver) \cup
            (IF r[1] /\ r[2] # None THEN RotationCase(update_height_size(n2)) ELSE {})

\* the elements of a set of keys, ascending
RECURSIVE SortedKeys(_)
SortedKeys(S) ==
    IF S = {} THEN <<>>
    ELSE LET m == CHOOSE x \in S : \A y \in S : x <= y
         IN <<m>> \o SortedKeys(S \ {m})

\* ---------------------------------------------------------------- actions
\* old: what get(key) returned before the operation; rot: the rotation cases
\* the operation took
Op(kind, key, value, old, rot) ==
    [kind |-> kind, key |-> key, value |-> value, old |-> old, rot |-> rot]

NoSnapshot ==
    [gets |-> [k \in KeysDB |-> None], range |-> <<>>, version |-> 0,
     hash |-> EMPTY_HASH, committed |-> FALSE]

\* a BTreeMap without entries
EmptyMap == [k \in KeysO |-> None]

\* no Overlay has been constructed
NoOverlay == [kind |-> "none", tree |-> EmptyMap]

NoStaged == [k \in KeysO |-> None]

\* no MergeIter has been constructed
\* no TreeIterator exists
NoIter == [active |-> FALSE, stack |-> <<>>, lo |-> Unbounded, hi |-> Unbounded, calls |-> <<>>]

NoMerge == [in1 |-> <<>>, in2 |-> <<>>, i1 |-> <<>>, i2 |-> <<>>, calls |-> <<>>]

InitOf(startVersions, overlays, merges) ==
    /\ root = None
    /\ version = 0
    /\ result = None
    /\ root2 = None
    /\ version2 \in startVersions
    /\ result2 = None
    /\ ref = [k \in Keys |-> None]
    /\ lastOp = Op("new", 0, 0, None, {})
    /\ nops = 0
    /\ wal = <<>>
    /\ pending = <<>>
    /\ before = NoSnapshot
    /\ fatal = FALSE
    /\ mem = EmptyMap
    /\ overlay \in overlays
    /\ stagedRef = NoStaged
    /\ merge \in merges
    /\ commits = <<>>
    /\ reward = 0
    /\ iter = NoIter

InitWith(startVersions) == InitOf(startVersions, {NoOverlay}, {NoMerge})

\* IAVLTree::new; the second instance starts as test_hash_vector's does
Init == InitWith({InitialVersion})

\* the second instance starts at the same or at another version
InitV == InitWith({0, InitialVersion})

Set(k, v) ==
    /\ root' = set(root, version, k, v)
    /\ root2' = set(root2, version2, k, v)
    /\ ref' = [ref EXCEPT ![k] = Some(v)]
    /\ lastOp' = Op("set", k, v, get(root, k),
                    IF root = None THEN {}
                    ELSE InsertRotations(root[1], k, v, version + 1))
    /\ nops' = nops + 1
    /\ UNCHANGED <<iter, version, version2, result, result2, wal, pending, before, fatal, mem, overlay, stagedRef, merge, commits, reward>>

Remove(k) ==
    /\ root' = remove(root, version, k)
    /\ root2' = remove(root2, version2, k)
    /\ ref' = [ref EXCEPT ![k] = None]
    /\ lastOp' = Op("remove", k, 0, get(root, k),
                    IF root = None THEN {}
                    ELSE RemoveRotations(root[1], k, version + 1))
    /\ nops' = nops + 1
    /\ UNCHANGED <<iter, version, version2, result, result2, wal, pending, before, fatal, mem, overlay, stagedRef, merge, commits, reward>>

RootHash ==
    /\ root' = root_hash(root)[1]
    /\ result' = Some(root_hash(root)[2])
    /\ root2' = root_hash(root2)[1]
    /\ result2' = Some(root_hash(root2)[2])
    /\ lastOp' = Op("root_hash", 0, 0, None, {})
    /\ nops' = nops + 1
    /\ UNCHANGED <<iter, version, version2, ref, wal, pending, before, fatal, mem, overlay, stagedRef, merge, commits, reward>>

\* what a save_version returned, what the tree stored then, and how many
\* operations had been applied
Committed(rt, ver, at) ==
    [hash |-> root_hash(rt)[2], version |-> ver,
     items |-> range(rt, Unbounded, Unbounded), at |-> at]

\* mutant of SaveVersionCall: the version counter advances by two
SaveVersionCall_skip ==
    /\ version' = version + 2
    /\ root' = root_hash(root)[1]
    /\ result' = Some(root_hash(root)[2])
    /\ version2' = version2 + 2
    /\ root2' = root_hash(root2)[1]
    /\ result2' = Some(root_hash(root2)[2])
    /\ lastOp' = Op("save_version", 0, 0, None, {})
    /\ nops' = nops + 1
    /\ UNCHANGED <<iter, ref, wal, pending, before, fatal, mem, overlay, stagedRef, merge, reward>>

\* mutant of SaveVersionCall: the root node is stamped with the new version
\* before it is hashed
SaveVersionCall_restamp ==
    LET stamped(rt, ver) == IF rt = None THEN rt ELSE Some(mutate(rt[1], ver))
    IN /\ version' = version + 1
       /\ root' = root_hash(stamped(root, version + 1))[1]
       /\ result' = Some(root_hash(stamped(root, version + 1))[2])
       /\ version2' = version2 + 1
       /\ root2' = root_hash(stamped(root2, version2 + 1))[1]
       /\ result2' = Some(root_hash(stamped(root2, version2 + 1))[2])
       /\ lastOp' = Op("save_version", 0, 0, None, {})
       /\ nops' = nops + 1
       /\ UNCHANGED <<iter, ref, wal, pending, before, fatal, mem, overlay, stagedRef, merge, reward>>

\* IAVLTree::save_version on both trees
SaveVersionCall ==
    /\ version' = version + 1
    /\ root' = root_hash(root)[1]
    /\ result' = Some(root_hash(root)[2])
    /\ version2' = version2 + 1
    /\ root2' = root_hash(root2)[1]
    /\ result2' = Some(root_hash(root2)[2])
    /\ lastOp' = Op("save_version", 0, 0, None, {})
    /\ nops' = nops + 1
    /\ UNCHANGED <<iter, ref, wal, pending, before, fatal, mem, overlay, stagedRef, merge, reward>>

SaveVersion == SaveVersionCall /\ UNCHANGED commits

\* save_version, and the history keeps what it returned
SaveVersionRec ==
    /\ SaveVersionCall
    /\ commits' = Append(commits, Committed(root, version + 1, nops + 1))

Next ==
    \/ \E k \in Keys : nops < MaxOps /\ Set(k, k)
    \/ \E k \in Keys : nops < MaxOps /\ Remove(k)
    \/ nops < MaxOps /\ RootHash
    \/ nops < MaxOps /\ SaveVersion

Spec == Init /\ [][Next]_vars

NextDeep ==
    \/ \E k \in Keys : nops < MaxOpsDeep /\ Set(k, k)
    \/ \E k \in Keys : nops < MaxOpsDeep /\ Remove(k)
    \/ nops < MaxOpsDeep /\ RootHash
    \/ nops < MaxOpsDeep /\ SaveVersion

SpecDeep == Init /\ [][NextDeep]_vars

NextV ==
    \/ \E k \in KeysV, v \in Values : nops < MaxOpsV /\ Set(k, v)
    \/ \E k \in KeysV : nops < MaxOpsV /\ Remove(k)
    \/ nops < MaxOpsV /\ RootHash
    \/ nops < MaxOpsV /\ SaveVersion

SpecV == Init /\ [][NextV]_vars

NextTwin ==
    \/ \E k \in KeysV : nops < MaxOpsV /\ Set(k, k)
    \/ \E k \in KeysV : nops < MaxOpsV /\ Remove(k)
    \/ nops < MaxOpsV /\ RootHash
    \/ nops < MaxOpsV /\ SaveVersion

SpecTwin == InitV /\ [][NextTwin]_vars

\* the tree with the history of its save_version calls
NextHist ==
    \/ \E k \in KeysH : nops < MaxOpsH /\ Set(k, k)
    \/ \E k \in KeysH : nops < MaxOpsH /\ Remove(k)
    \/ nops < MaxOpsH /\ RootHash
    \/ nops < MaxOpsH /\ SaveVersionRec

SpecHist == Init /\ [][NextHist]_vars

\* the tree with its history, where a key can be set to another value
NextUpd ==
    \/ \E k \in KeysV, v \in Values : nops < MaxOpsU /\ Set(k, v)
    \/ \E k \in KeysV : nops < MaxOpsU /\ Remove(k)
    \/ nops < MaxOpsU /\ SaveVersionRec

SpecUpd == Init /\ [][NextUpd]_vars

\* trees deep enough for a deletion to rotate, with the history of their
\* save_version calls
NextSib ==
    \/ \E k \in Keys : nops < MaxOpsS /\ Set(k, k)
    \/ \E k \in Keys : nops < MaxOpsS /\ Remove(k)
    \/ nops < MaxOpsS /\ SaveVersionRec

SpecSib == Init /\ [][NextSib]_vars

\* trees built by set and remove alone
NextR ==
    \/ \E k \in KeysR : nops < MaxOpsR /\ Set(k, k)
    \/ \E k \in KeysR : nops < MaxOpsR /\ Remove(k)

SpecR == Init /\ [][NextR]_vars

\* ------------------------------------------- one TreeIterator, both ends
KeysI == 1..MaxKeyI

BoundsI == {Unbounded} \cup {Included(k) : k \in KeysI} \cup {Excluded(k) : k \in KeysI}

\* the iterator exists and no call has returned None yet
IterRunning ==
    /\ iter.active
    /\ IF iter.calls = <<>> THEN TRUE ELSE iter.calls[Len(iter.calls)].item # None

\* a client takes a range iterator over the tree; the iterator borrows the
\* tree, which is not written to from then on
IterNew(lo, hi) ==
    /\ ~iter.active
    /\ iter' = [active |-> TRUE, stack |-> TreeIterator_new(root),
                lo |-> lo, hi |-> hi, calls |-> <<>>]
    /\ lastOp' = Op("range", 0, 0, None, {})
    /\ UNCHANGED <<root, version, result, root2, version2, result2, ref, nops,
                   wal, pending, before, fatal, mem, overlay, stagedRef, merge, commits, reward>>

\* the client calls next on the iterator
IterNext ==
    /\ IterRunning
    /\ LET r == TreeIterator_next(iter.stack, iter.lo, iter.hi)
       IN iter' = [iter EXCEPT !.stack = r[2],
                               !.calls = Append(@, [back |-> FALSE, item |-> r[1]])]
    /\ lastOp' = Op("next", 0, 0, None, {})
    /\ UNCHANGED <<root, version, result, root2, version2, result2, ref, nops,
                   wal, pending, before, fatal, mem, overlay, stagedRef, merge, commits, reward>>

\* the client calls next_back on the same iterator
IterNextBack ==
    /\ IterRunning
    /\ LET r == TreeIterator_next_back(iter.stack, iter.lo, iter.hi)
       IN iter' = [iter EXCEPT !.stack = r[2],
                               !.calls = Append(@, [back |-> TRUE, item |-> r[1]])]
    /\ lastOp' = Op("next_back", 0, 0, None, {})
    /\ UNCHANGED <<root, version, result, root2, version2, result2, ref, nops,
                   wal, pending, before, fatal, mem, overlay, stagedRef, merge, commits, reward>>

NextI ==
    \/ \E k \in KeysI : ~iter.active /\ nops < MaxOpsI /\ Set(k, k)
    \/ \E lo \in BoundsI, hi \in BoundsI : IterNew(lo, hi)
    \/ IterNext
    \/ IterNextBack

SpecI == Init /\ [][NextI]_vars

\* ------------------------------------------------------------------ IAVLDB
ChangeItems == {<<k, ov>> : k \in KeysDB, ov \in {None} \cup {Some(v) : v \in Values}}

RECURSIVE SeqsUpTo(_, _)
SeqsUpTo(S, n) ==
    IF n = 0 THEN {<<>>}
    ELSE LET shorter == SeqsUpTo(S, n - 1)
         IN shorter \cup {Append(s, x) : s \in shorter, x \in S}

Batches == SeqsUpTo(ChangeItems, MaxBatch)

\* the first n entries of a batch handed to the tree one by one, as single
\* set and remove calls
RECURSIVE SequentialCalls(_, _, _, _)
SequentialCalls(rt, ver, batch, n) ==
    IF n = 0 THEN rt
    ELSE LET done == SequentialCalls(rt, ver, batch, n - 1)
         IN IF batch[n][2] # None THEN set(done, ver, batch[n][1], batch[n][2][1])
            ELSE remove(done, ver, batch[n][1])

\* what the reference map holds for key after the entries of batch
LastFor(batch, key) ==
    LET at == {i \in 1..Len(batch) : batch[i][1] = key}
    IN IF at = {} THEN ref[key]
       ELSE batch[CHOOSE i \in at : \A j \in at : j <= i][2]

\* an entry removes its key or sets it to one of two values
ChangeItemsB ==
    {<<k, ov>> : k \in KeysB, ov \in {None, Some(1), Some(2)}}

BatchesB == SeqsUpTo(ChangeItemsB, MaxBatchB)

\* the batch holds two different entries for one key
RepeatsKey(batch) ==
    \E i, j \in 1..Len(batch) :
        i < j /\ batch[i][1] = batch[j][1] /\ batch[i][2] # batch[j][2]

\* the first tree takes the batch through write_batch, the second takes the
\* same entries as single calls; old: the length of the batch and whether it
\* repeats a key
WriteBatch(batch) ==
    /\ root' = write_batch(root, version, batch)
    /\ root2' = SequentialCalls(root2, version2, batch, Len(batch))
    /\ ref' = [k \in Keys |-> LastFor(batch, k)]
    /\ lastOp' = Op("write_batch", 0, 0, <<Len(batch), RepeatsKey(batch)>>, {})
    /\ nops' = nops + 1
    /\ UNCHANGED <<iter, version, version2, result, result2, wal, pending, before, fatal, mem, overlay, stagedRef, merge, commits, reward>>

\* both trees are created by IAVLTree::new
InitBatch == InitWith({0})

NextBatch ==
    \/ \E batch \in BatchesB : nops < MaxOpsB /\ WriteBatch(batch)
    \/ nops < MaxOpsB /\ RootHash
    \/ nops < MaxOpsB /\ SaveVersion

SpecBatch == InitBatch /\ [][NextBatch]_vars

\* IAVLDB::write_batch
DBWriteBatch(batch) ==
    /\ ~fatal
    /\ pending' = batch
    /\ root' = write_batch(root, version, batch)
    /\ lastOp' = Op("db_write_batch", 0, 0, None, {})
    /\ nops' = nops + 1
    /\ UNCHANGED <<iter, version, result, root2, version2, result2, ref, wal, before,
                   fatal, mem, overlay, stagedRef, merge, commits, reward>>

\* IAVLDB::save_version
DBSaveVersionCall ==
    /\ ~fatal
    /\ version' = version + 1
    /\ root' = root_hash(root)[1]
    /\ result' = Some(root_hash(root)[2])
    /\ wal' = Append(wal, [version |-> version + 1, changes |-> pending])
    /\ pending' = <<>>
    /\ lastOp' = Op("db_save_version", 0, 0, None, {})
    /\ nops' = nops + 1
    /\ UNCHANGED <<iter, root2, version2, result2, ref, before,
                   fatal, mem, overlay, stagedRef, merge, reward>>

\* mutant of DBSaveVersion: the entry is built before the tree's version is
\* incremented
DBSaveVersion_stale ==
    /\ ~fatal
    /\ version' = version + 1
    /\ root' = root_hash(root)[1]
    /\ result' = Some(root_hash(root)[2])
    /\ wal' = Append(wal, [version |-> version, changes |-> pending])
    /\ pending' = <<>>
    /\ lastOp' = Op("db_save_version", 0, 0, None, {})
    /\ nops' = nops + 1
    /\ UNCHANGED <<iter, root2, version2, result2, ref, before,
                   fatal, mem, overlay, stagedRef, merge, commits, reward>>

\* IAVLDB::save_version
DBSaveVersion == DBSaveVersionCall /\ UNCHANGED commits

\* IAVLDB::save_version, and the history keeps what it returned
DBSaveVersionRec ==
    /\ DBSaveVersionCall
    /\ commits' = Append(commits, Committed(root, version + 1, nops + 1))

\* mutant of Replay: the version is advanced for the first entry only
RECURSIVE Replay_once(_, _, _)
Replay_once(rt, ver, entries) ==
    IF entries = <<>> THEN <<rt, ver>>
    ELSE LET rt1 == write_batch(rt, ver, Head(entries).changes)
         IN Replay_once(root_hash(rt1)[1], IF ver = 0 THEN 1 ELSE ver, Tail(entries))

\* the loop of IAVLDB::new over the entries read from the log:
\* returns <<root, version>>
RECURSIVE Replay(_, _, _)
Replay(rt, ver, entries) ==
    IF entries = <<>> THEN <<rt, ver>>
    ELSE LET rt1 == write_batch(rt, ver, Head(entries).changes)
         IN Replay(root_hash(rt1)[1], ver + 1, Tail(entries))

\* what a client can read from the DB
Snapshot(rt, ver, committed) ==
    [gets |-> [k \in KeysDB |-> get(rt, k)],
     range |-> range(rt, Unbounded, Unbounded),
     version |-> ver,
     hash |-> root_hash(rt)[2],
     committed |-> committed]

\* the DB is dropped and IAVLDB::new is called again on the same log; an
\* overlay that held the DB is gone with it and is constructed anew
DBReopen ==
    /\ before' = Snapshot(root, version, lastOp.kind = "db_save_version")
    /\ root' = Replay(None, 0, wal)[1]
    /\ version' = Replay(None, 0, wal)[2]
    /\ pending' = <<>>
    /\ fatal' = FALSE
    /\ lastOp' = Op("db_reopen", 0, 0, None, {})
    /\ nops' = nops + 1
    /\ overlay' = [overlay EXCEPT !.tree = EmptyMap]
    /\ stagedRef' = NoStaged
    /\ UNCHANGED <<iter, result, root2, version2, result2, ref, wal, mem, merge, commits, reward>>

\* the fields of the IAVLDB and whether the process has panicked
DBState ==
    [root |-> root, version |-> version, pending |-> pending, wal |-> wal,
     fatal |-> fatal]

\* mutant of IAVLDB_set: the write goes to the tree and the call returns
IAVLDB_set_direct(db, key, value) ==
    [db EXCEPT !.root = set(db.root, db.version, key, value)]

\* IAVLDB::set: panic!
IAVLDB_set(db, key, value) == [db EXCEPT !.fatal = TRUE]

\* IAVLDB::remove: panic!
IAVLDB_remove(db, key) == [db EXCEPT !.fatal = TRUE]

\* the DB's fields become those of db
DBBecomes(db) ==
    /\ root' = db.root
    /\ version' = db.version
    /\ pending' = db.pending
    /\ wal' = db.wal
    /\ fatal' = db.fatal

\* a client calls set on the DB
DBSet(k, v) ==
    /\ ~fatal
    /\ DBBecomes(IAVLDB_set(DBState, k, v))
    /\ lastOp' = Op("db_set", k, v, None, {})
    /\ nops' = nops + 1
    /\ UNCHANGED <<iter, result, root2, version2, result2, ref, before,
                   mem, overlay, stagedRef, merge, commits, reward>>

\* a client calls remove on the DB
DBRemove(k) ==
    /\ ~fatal
    /\ DBBecomes(IAVLDB_remove(DBState, k))
    /\ lastOp' = Op("db_remove", k, 0, None, {})
    /\ nops' = nops + 1
    /\ UNCHANGED <<iter, result, root2, version2, result2, ref, before,
                   mem, overlay, stagedRef, merge, commits, reward>>

\* IAVLDB::get: the answer is kept in lastOp.old
DBGet(k) ==
    /\ ~fatal
    /\ lastOp' = Op("db_get", k, 0, get(root, k), {})
    /\ nops' = nops + 1
    /\ UNCHANGED <<iter, root, version, result, root2, version2, result2, ref,
                   wal, pending, before, fatal, mem, overlay, stagedRef, merge, commits, reward>>

\* IAVLDB::range over all keys, driven forward to the end
DBRange ==
    /\ ~fatal
    /\ lastOp' = Op("db_range", 0, 0, range(root, Unbounded, Unbounded), {})
    /\ nops' = nops + 1
    /\ UNCHANGED <<iter, root, version, result, root2, version2, result2, ref,
                   wal, pending, before, fatal, mem, overlay, stagedRef, merge, commits, reward>>

\* batches of at most one change, every key written with itself as value
BatchesL ==
    {<<>>} \cup {<<(<<k, Some(k)>>)>> : k \in KeysL} \cup {<<(<<k, None>>)>> : k \in KeysL}

NextLog ==
    \/ \E batch \in BatchesL : nops < MaxOpsL /\ DBWriteBatch(batch)
    \/ nops < MaxOpsL /\ DBSaveVersion
    \/ nops < MaxOpsL /\ DBReopen
    \/ \E k \in KeysL : nops < MaxOpsL /\ DBSet(k, k)
    \/ \E k \in KeysL : nops < MaxOpsL /\ DBRemove(k)
    \/ \E k \in KeysL : nops < MaxOpsL /\ DBGet(k)
    \/ nops < MaxOpsL /\ DBRange

SpecLog == Init /\ [][NextLog]_vars

\* the DB with the history of what its save_version calls returned; the
\* process can stop and the DB be reopened at any point
NextCrash ==
    \/ \E batch \in BatchesL : nops < MaxOpsL /\ DBWriteBatch(batch)
    \/ nops < MaxOpsL /\ DBSaveVersionRec
    \/ nops < MaxOpsL /\ DBReopen

SpecCrash == Init /\ [][NextCrash]_vars

NextDB ==
    \/ \E batch \in Batches : nops < MaxOpsDB /\ DBWriteBatch(batch)
    \/ nops < MaxOpsDB /\ DBSaveVersion
    \/ nops < MaxOpsDB /\ DBReopen

SpecDB == Init /\ [][NextDB]_vars

\* --------------------------------------------------------------- MergeIter
\* An input iterator is the sequence of the items it has not yielded yet:
\* peek / next look at and take the first, peek_back / next_back the last.
\* Items of i1 are <<key, Option<value>>>, items of i2 are <<key, value>>.
MergeIter_new(i1, i2) == [i1 |-> i1, i2 |-> i2]

Front(s) == s[1]
Back(s) == s[Len(s)]
DropFront(s) == SubSeq(s, 2, Len(s))
DropBack(s) == SubSeq(s, 1, Len(s) - 1)

\* mutant of MergeIter_next: on equal keys the second input is not advanced
RECURSIVE MergeIter_next_keepbase(_)
MergeIter_next_keepbase(mi) ==
    LET take1(m) ==
            LET it == Front(m.i1)
                m1 == [m EXCEPT !.i1 = DropFront(m.i1)]
            IN IF it[2] = None THEN MergeIter_next_keepbase(m1)
               ELSE <<Some(<<it[1], it[2][1]>>), m1>>
        take2(m) == <<Some(Front(m.i2)), [m EXCEPT !.i2 = DropFront(m.i2)]>>
    IN IF mi.i1 # <<>> /\ mi.i2 # <<>> THEN
           IF Front(mi.i1)[1] <= Front(mi.i2)[1] THEN take1(mi)
           ELSE take2(mi)
       ELSE IF mi.i1 # <<>> THEN take1(mi)
       ELSE IF mi.i2 # <<>> THEN take2(mi)
       ELSE <<None, mi>>

\* MergeIter::next: returns <<Option<<<key, value>>>, MergeIter>>
RECURSIVE MergeIter_next(_)
MergeIter_next(mi) ==
    LET take1(m) ==
            LET it == Front(m.i1)
                m1 == [m EXCEPT !.i1 = DropFront(m.i1)]
            IN IF it[2] = None THEN MergeIter_next(m1)
               ELSE <<Some(<<it[1], it[2][1]>>), m1>>
        take2(m) == <<Some(Front(m.i2)), [m EXCEPT !.i2 = DropFront(m.i2)]>>
    IN IF mi.i1 # <<>> /\ mi.i2 # <<>> THEN
           IF Front(mi.i1)[1] < Front(mi.i2)[1] THEN take1(mi)
           ELSE IF Front(mi.i1)[1] = Front(mi.i2)[1]
                THEN take1([mi EXCEPT !.i2 = DropFront(mi.i2)])
           ELSE take2(mi)
       ELSE IF mi.i1 # <<>> THEN take1(mi)
       ELSE IF mi.i2 # <<>> THEN take2(mi)
       ELSE <<None, mi>>

\* mutant of MergeIter_next_back: on equal keys the second input is not
\* advanced
RECURSIVE MergeIter_next_back_keepbase(_)
MergeIter_next_back_keepbase(mi) ==
    LET take1(m) ==
            LET it == Back(m.i1)
                m1 == [m EXCEPT !.i1 = DropBack(m.i1)]
            IN IF it[2] = None THEN MergeIter_next_back_keepbase(m1)
               ELSE <<Some(<<it[1], it[2][1]>>), m1>>
        take2(m) == <<Some(Back(m.i2)), [m EXCEPT !.i2 = DropBack(m.i2)]>>
    IN IF mi.i1 # <<>> /\ mi.i2 # <<>> THEN
           IF Back(mi.i1)[1] >= Back(mi.i2)[1] THEN take1(mi)
           ELSE take2(mi)
       ELSE IF mi.i1 # <<>> THEN take1(mi)
       ELSE IF mi.i2 # <<>> THEN take2(mi)
       ELSE <<None, mi>>

\* MergeIter::next_back: returns <<Option<<<key, value>>>, MergeIter>>
RECURSIVE MergeIter_next_back(_)
MergeIter_next_back(mi) ==
    LET take1(m) ==
            LET it == Back(m.i1)
                m1 == [m EXCEPT !.i1 = DropBack(m.i1)]
            IN IF it[2] = None THEN MergeIter_next_back(m1)
               ELSE <<Some(<<it[1], it[2][1]>>), m1>>
        take2(m) == <<Some(Back(m.i2)), [m EXCEPT !.i2 = DropBack(m.i2)]>>
    IN IF mi.i1 # <<>> /\ mi.i2 # <<>> THEN
           IF Back(mi.i1)[1] > Back(mi.i2)[1] THEN take1(mi)
           ELSE IF Back(mi.i1)[1] = Back(mi.i2)[1]
                THEN take1([mi EXCEPT !.i2 = DropBack(mi.i2)])
           ELSE take2(mi)
       ELSE IF mi.i1 # <<>> THEN take1(mi)
       ELSE IF mi.i2 # <<>> THEN take2(mi)
       ELSE <<None, mi>>

\* the items a forward-only iteration yields until it returns None
RECURSIVE MergeCollect(_)
MergeCollect(mi) ==
    LET r == MergeIter_next(mi)
    IN IF r[1] = None THEN <<>> ELSE <<r[1][1]>> \o MergeCollect(r[2])

\* every ascending first input over KeysM: each key has no entry, a
\* tombstone or the value k
OverlayStreams ==
    {LET ks == SortedKeys({k \in KeysM : f[k] # "absent"})
     IN [i \in 1..Len(ks) |->
            <<ks[i], IF f[ks[i]] = "tombstone" THEN None ELSE Some(ks[i])>>]
     : f \in [KeysM -> {"absent", "tombstone", "value"}]}

\* every ascending second input over KeysM: key k has the value k + MaxKeyM
BaseStreams ==
    {LET ks == SortedKeys(S)
     IN [i \in 1..Len(ks) |-> <<ks[i], ks[i] + MaxKeyM>>]
     : S \in SUBSET KeysM}

\* MergeIter::new over every pair of inputs
InitMerge ==
    InitOf({InitialVersion}, {NoOverlay},
           {[in1 |-> a, in2 |-> b, i1 |-> a, i2 |-> b, calls |-> <<>>]
            : a \in OverlayStreams, b \in BaseStreams})

\* no call has returned None yet
MergeRunning ==
    IF merge.calls = <<>> THEN TRUE ELSE Back(merge.calls).item # None

\* a client calls next on the MergeIter
MergeNext ==
    /\ MergeRunning
    /\ LET r == MergeIter_next(MergeIter_new(merge.i1, merge.i2))
       IN merge' = [merge EXCEPT !.i1 = r[2].i1, !.i2 = r[2].i2,
                                 !.calls = Append(@, [back |-> FALSE, item |-> r[1]])]
    /\ lastOp' = Op("merge_next", 0, 0, None, {})
    /\ nops' = nops + 1
    /\ UNCHANGED <<iter, root, version, result, root2, version2, result2, ref,
                   wal, pending, before, fatal, mem, overlay, stagedRef, commits, reward>>

\* a client calls next_back on the MergeIter
MergeNextBack ==
    /\ MergeRunning
    /\ LET r == MergeIter_next_back(MergeIter_new(merge.i1, merge.i2))
       IN merge' = [merge EXCEPT !.i1 = r[2].i1, !.i2 = r[2].i2,
                                 !.calls = Append(@, [back |-> TRUE, item |-> r[1]])]
    /\ lastOp' = Op("merge_next_back", 0, 0, None, {})
    /\ nops' = nops + 1
    /\ UNCHANGED <<iter, root, version, result, root2, version2, result2, ref,
                   wal, pending, before, fatal, mem, overlay, stagedRef, commits, reward>>

NextMerge ==
    \/ MergeNext
    \/ MergeNextBack

SpecMerge == InitMerge /\ [][NextMerge]_vars

\* ------------------------------------------------------ MemTree, Overlay
\* BTreeMap::range panics when the start is after the end, and when both
\* bounds exclude the same key
RangePanics(lo, hi) ==
    /\ lo.kind # "Unbounded"
    /\ hi.kind # "Unbounded"
    /\ (lo.key > hi.key \/ (lo.key = hi.key /\ lo.kind = "Excluded" /\ hi.kind = "Excluded"))

\* the outcome of a range call driven forward to the end: the call panicked,
\* or these items were yielded
Panicked == [panic |-> TRUE, items |-> <<>>]
Yielded(items) == [panic |-> FALSE, items |-> items]

\* BTreeMap::range: a map is a function key -> Option<entry>
BTreeMap_range(map, lo, hi) ==
    IF RangePanics(lo, hi) THEN Panicked
    ELSE LET ks == SortedKeys({k \in DOMAIN map :
                        /\ map[k] # None
                        /\ (lo.kind = "Included" => k >= lo.key)
                        /\ (lo.kind = "Excluded" => k > lo.key)
                        /\ (hi.kind = "Included" => k <= hi.key)
                        /\ (hi.kind = "Excluded" => k < hi.key)})
         IN Yielded([i \in 1..Len(ks) |-> <<ks[i], map[ks[i]][1]>>])

\* BTreeMap::into_iter
BTreeMap_into_iter(map) == BTreeMap_range(map, Unbounded, Unbounded).items

\* the store the overlay is stacked on; its kind stands for the type that
\* implements KVStore: "mem" MemTree, "iavl" IAVLTree, "db" IAVLDB
ParentStore ==
    [kind |-> overlay.kind, mem |-> mem, root |-> root, version |-> version,
     pending |-> pending, wal |-> wal, fatal |-> fatal]

\* KVStore::get of MemTree, IAVLTree, IAVLDB
KVStore_get(st, key) ==
    IF st.kind = "mem" THEN st.mem[key] ELSE get(st.root, key)

\* KVStore::set of MemTree, IAVLTree, IAVLDB
KVStore_set(st, key, value) ==
    IF st.kind = "mem" THEN [st EXCEPT !.mem[key] = Some(value)]
    ELSE IF st.kind = "iavl"
         THEN [st EXCEPT !.root = set(st.root, st.version, key, value)]
    ELSE IAVLDB_set(st, key, value)

\* KVStore::remove of MemTree, IAVLTree, IAVLDB
KVStore_remove(st, key) ==
    IF st.kind = "mem" THEN [st EXCEPT !.mem[key] = None]
    ELSE IF st.kind = "iavl"
         THEN [st EXCEPT !.root = remove(st.root, st.version, key)]
    ELSE IAVLDB_remove(st, key)

\* KVStore::range of MemTree, IAVLTree, IAVLDB, driven forward to the end
KVStore_range(st, lo, hi) ==
    IF st.kind = "mem" THEN BTreeMap_range(st.mem, lo, hi)
    ELSE Yielded(range(st.root, lo, hi))

\* Overlay::new
Overlay_new(parent) == [parent |-> parent, tree |-> EmptyMap]

\* the overlay with its parent
OverlayState == [parent |-> ParentStore, tree |-> overlay.tree]

\* mutant of Overlay_get: a tombstone falls through to the parent
Overlay_get_through(ov, key) ==
    IF ov.tree[key] # None /\ ov.tree[key][1] # None THEN ov.tree[key][1]
    ELSE KVStore_get(ov.parent, key)

\* Overlay::get: an entry of the staging map is Some(value) or the
\* tombstone None
Overlay_get(ov, key) ==
    IF ov.tree[key] # None THEN ov.tree[key][1]
    ELSE KVStore_get(ov.parent, key)

\* mutant of Overlay_set: the write also goes to the parent
Overlay_set_through(ov, key, value) ==
    [ov EXCEPT !.tree[key] = Some(Some(value)),
               !.parent = KVStore_set(ov.parent, key, value)]

\* Overlay::set
Overlay_set(ov, key, value) == [ov EXCEPT !.tree[key] = Some(Some(value))]

\* Overlay::remove
Overlay_remove(ov, key) == [ov EXCEPT !.tree[key] = Some(None)]

\* the loop of Overlay::flush over the taken entries; a panic ends it
RECURSIVE FlushEntries(_, _)
FlushEntries(st, entries) ==
    IF entries = <<>> THEN st
    ELSE IF st.fatal THEN st
    ELSE LET e == Head(entries)
         IN FlushEntries(IF e[2] # None THEN KVStore_set(st, e[1], e[2][1])
                         ELSE KVStore_remove(st, e[1]),
                         Tail(entries))

\* mutant of Overlay_flush: tombstones are dropped instead of applied
Overlay_flush_values(ov) ==
    [parent |-> FlushEntries(ov.parent,
                    SelectSeq(BTreeMap_into_iter(ov.tree), LAMBDA e : e[2] # None)),
     tree |-> EmptyMap]

\* Overlay::flush
Overlay_flush(ov) ==
    [parent |-> FlushEntries(ov.parent, BTreeMap_into_iter(ov.tree)),
     tree |-> EmptyMap]

\* Overlay::range driven forward to the end
Overlay_range(ov, lo, hi) ==
    LET a == BTreeMap_range(ov.tree, lo, hi)
    IN IF a.panic THEN Panicked
       ELSE LET b == KVStore_range(ov.parent, lo, hi)
            IN IF b.panic THEN Panicked
               ELSE Yielded(MergeCollect(MergeIter_new(a.items, b.items)))

\* the overlay and its parent become ov
OverlayBecomes(ov) ==
    /\ mem' = ov.parent.mem
    /\ root' = ov.parent.root
    /\ version' = ov.parent.version
    /\ pending' = ov.parent.pending
    /\ wal' = ov.parent.wal
    /\ fatal' = ov.parent.fatal
    /\ overlay' = [overlay EXCEPT !.tree = ov.tree]

\* a client calls set on the overlay
OvSet(k, v) ==
    /\ ~fatal
    /\ OverlayBecomes(Overlay_set(OverlayState, k, v))
    /\ stagedRef' = [stagedRef EXCEPT ![k] = Some([op |-> "set", value |-> v])]
    /\ lastOp' = Op("ov_set", k, v, None, {})
    /\ nops' = nops + 1
    /\ UNCHANGED <<iter, result, root2, version2, result2, ref, before, merge, commits, reward>>

\* a client calls remove on the overlay
OvRemove(k) ==
    /\ ~fatal
    /\ OverlayBecomes(Overlay_remove(OverlayState, k))
    /\ stagedRef' = [stagedRef EXCEPT ![k] = Some([op |-> "remove", value |-> 0])]
    /\ lastOp' = Op("ov_remove", k, 0, None, {})
    /\ nops' = nops + 1
    /\ UNCHANGED <<iter, result, root2, version2, result2, ref, before, merge, commits, reward>>

\* a client calls flush on the overlay; lastOp.old keeps the entries that
\* were staged and the keys the parent held before the call
OvFlush ==
    /\ ~fatal
    /\ OverlayBecomes(Overlay_flush(OverlayState))
    /\ stagedRef' = NoStaged
    /\ lastOp' = Op("ov_flush", 0, 0,
                    [entries |-> BTreeMap_into_iter(overlay.tree),
                     held |-> {k \in KeysO : KVStore_get(ParentStore, k) # None}],
                    {})
    /\ nops' = nops + 1
    /\ UNCHANGED <<iter, result, root2, version2, result2, ref, before, merge, commits, reward>>

\* the overlay is dropped without a flush and a new one is made over the
\* same parent
OvDrop ==
    /\ ~fatal
    /\ OverlayBecomes(Overlay_new(ParentStore))
    /\ stagedRef' = NoStaged
    /\ lastOp' = Op("ov_drop", 0, 0, None, {})
    /\ nops' = nops + 1
    /\ UNCHANGED <<iter, result, root2, version2, result2, ref, before, merge, commits, reward>>

\* Overlay::new over an empty MemTree or an empty IAVLTree
InitOv ==
    InitOf({InitialVersion},
           {[kind |-> c, tree |-> EmptyMap] : c \in {"mem", "iavl"}}, {NoMerge})

NextOv ==
    \/ \E k \in KeysO, v \in Values : nops < MaxOpsO /\ OvSet(k, v)
    \/ \E k \in KeysO : nops < MaxOpsO /\ OvRemove(k)
    \/ nops < MaxOpsO /\ OvFlush
    \/ nops < MaxOpsO /\ OvDrop

SpecOv == InitOv /\ [][NextOv]_vars

\* Overlay::new over a new IAVLDB
InitOvDB ==
    InitOf({InitialVersion}, {[kind |-> "db", tree |-> EmptyMap]}, {NoMerge})

NextOvDB ==
    \/ \E k \in KeysO, v \in Values : nops < MaxOpsO /\ OvSet(k, v)
    \/ \E k \in KeysO : nops < MaxOpsO /\ OvRemove(k)
    \/ nops < MaxOpsO /\ OvFlush
    \/ nops < MaxOpsO /\ DBSaveVersion
    \/ nops < MaxOpsO /\ DBReopen

SpecOvDB == InitOvDB /\ [][NextOvDB]_vars

\* ------------------------------------------------------------ application
CHAIN_ID == 1

\* auth::store_key: one store key for each address
store_key(address) == address

AccountValue_default == [nonce |-> 0, balance |-> 0]

\* the RLP encoding of an AccountValue: the list of its two fields
AccountValue_encode(account) == <<account.nonce, account.balance>>

\* AccountValue::decode: Err for bytes that are not a list of two integers
AccountValue_decode(bz) ==
    IF Len(bz) = 2 THEN Some([nonce |-> bz[1], balance |-> bz[2]]) ELSE None

\* U256::checked_add and checked_sub
checked_add(a, b) == IF a + b > MaxBalance THEN None ELSE Some(a + b)
checked_sub(a, b) == IF a < b THEN None ELSE Some(a - b)

\* auth::load_account(..).unwrap_or_default(), given what kv.get returned
load_account_or_default(got) ==
    IF got = None THEN AccountValue_default
    ELSE LET value == AccountValue_decode(got[1])
         IN IF value = None THEN AccountValue_default ELSE value[1]

\* execute_tx failed: nothing was written to the snapshot
TxFailed(ov) == [fee |-> None, ov |-> ov]

\* execute_tx on a snapshot: returns the fee, or None, and the snapshot
execute_tx(ov, tx) ==
    IF ~tx.legacy THEN TxFailed(ov)
    ELSE IF tx.signer = None THEN TxFailed(ov)
    ELSE IF tx.chain_id = None THEN TxFailed(ov)
    ELSE IF tx.chain_id[1] # CHAIN_ID THEN TxFailed(ov)
    ELSE
      LET sender == tx.signer[1]
          account == load_account_or_default(Overlay_get(ov, store_key(sender)))
      IN IF account.nonce # tx.nonce THEN TxFailed(ov)
         ELSE IF account.nonce + 1 > MaxNonce THEN TxFailed(ov)
         ELSE
           LET fee == tx.gas_price * tx.gas_limit
               afterFee == checked_sub(account.balance, fee)
           IN IF afterFee = None THEN TxFailed(ov)
              ELSE IF tx.value > 0 THEN
                IF tx.to = None THEN TxFailed(ov)
                ELSE
                  LET recipient == load_account_or_default(
                                       Overlay_get(ov, store_key(tx.to[1])))
                      afterValue == checked_sub(afterFee[1], tx.value)
                      credited == checked_add(recipient.balance, tx.value)
                  IN IF afterValue = None THEN TxFailed(ov)
                     ELSE IF credited = None THEN TxFailed(ov)
                     ELSE
                       LET ov1 == Overlay_set(ov, store_key(tx.to[1]),
                                      AccountValue_encode(
                                          [recipient EXCEPT !.balance = credited[1]]))
                       IN [fee |-> Some(fee),
                           ov |-> Overlay_set(ov1, store_key(sender),
                                      AccountValue_encode(
                                          [nonce |-> account.nonce + 1,
                                           balance |-> afterValue[1]]))]
              ELSE [fee |-> Some(fee),
                    ov |-> Overlay_set(ov, store_key(sender),
                               AccountValue_encode(
                                   [nonce |-> account.nonce + 1,
                                    balance |-> afterFee[1]]))]

\* auth::modify_native_balance with a closure that adds amount: returns the
\* store, unchanged when the addition overflows
modify_native_balance(st, address, amount) ==
    LET account == load_account_or_default(KVStore_get(st, store_key(address)))
        sum == checked_add(account.balance, amount)
    IN IF sum = None THEN st
       ELSE KVStore_set(st, store_key(address),
                AccountValue_encode([account EXCEPT !.balance = sum[1]]))

\* mutant of execute_block_tx: the snapshot of a transaction that succeeded
\* is dropped like one that failed
execute_block_tx_noflush(st, rw, tx) ==
    LET r == execute_tx(Overlay_new(st), tx)
    IN IF r.fee = None THEN [store |-> st, reward |-> rw, aborted |-> FALSE]
       ELSE LET sum == checked_add(rw, r.fee[1])
            IN IF sum = None THEN [store |-> st, reward |-> 0, aborted |-> TRUE]
               ELSE [store |-> st, reward |-> sum[1], aborted |-> FALSE]

\* one turn of execute_block's loop: a snapshot over the store, execute_tx on
\* it, then the flush, or the return when the reward overflows
execute_block_tx(st, rw, tx) ==
    LET r == execute_tx(Overlay_new(st), tx)
    IN IF r.fee = None THEN [store |-> st, reward |-> rw, aborted |-> FALSE]
       ELSE LET sum == checked_add(rw, r.fee[1])
            IN IF sum = None THEN [store |-> st, reward |-> 0, aborted |-> TRUE]
               ELSE [store |-> Overlay_flush(r.ov).parent, reward |-> sum[1],
                     aborted |-> FALSE]

\* the store becomes st
StoreBecomes(st) ==
    /\ mem' = st.mem
    /\ root' = st.root
    /\ version' = st.version
    /\ pending' = st.pending
    /\ wal' = st.wal
    /\ fatal' = st.fatal

\* the transactions a block can hold: signed legacy transactions of every
\* shape, and one of each kind that fails before the sender is looked up
LegacyTxs ==
    [legacy : {TRUE}, signer : {Some(a) : a \in KeysO}, chain_id : {Some(CHAIN_ID)},
     nonce : 0..MaxNonce, gas_price : {0, 1}, gas_limit : {1}, value : {0, 1},
     to : {None} \cup {Some(a) : a \in KeysO}]

Malformed(legacy, signer, chain_id) ==
    [legacy |-> legacy, signer |-> signer, chain_id |-> chain_id, nonce |-> 0,
     gas_price |-> 0, gas_limit |-> 1, value |-> 0, to |-> None]

Txs ==
    LegacyTxs \cup {Malformed(FALSE, Some(1), Some(CHAIN_ID)),
                    Malformed(TRUE, None, Some(CHAIN_ID)),
                    Malformed(TRUE, Some(1), None),
                    Malformed(TRUE, Some(1), Some(CHAIN_ID + 1))}

\* an account is funded in the pre-state, as test_execute_block does
Fund(address, amount) ==
    /\ reward = 0
    /\ StoreBecomes(modify_native_balance(ParentStore, address, amount))
    /\ lastOp' = Op("fund", address, amount, None, {})
    /\ nops' = nops + 1
    /\ UNCHANGED <<iter, result, root2, version2, result2, ref, before, overlay, stagedRef, merge, commits, reward>>

\* execute_block: one transaction of the block; old: the fee execute_tx
\* returned, what it had written to its snapshot, and whether the block
\* returned early
ExecuteBlockTx(tx) ==
    LET r == execute_block_tx(ParentStore, reward, tx)
        x == execute_tx(Overlay_new(ParentStore), tx)
    IN /\ StoreBecomes(r.store)
       /\ reward' = r.reward
       /\ lastOp' = Op("block_tx", 0, 0,
                       [fee |-> x.fee, staged |-> x.ov.tree, aborted |-> r.aborted],
                       {})
       /\ nops' = nops + 1
       /\ UNCHANGED <<iter, result, root2, version2, result2, ref, before, overlay, stagedRef, merge, commits>>

\* execute_block: after the last transaction the fees are credited to the miner
ExecuteBlockEnd(miner) ==
    /\ StoreBecomes(modify_native_balance(ParentStore, miner, reward))
    /\ reward' = 0
    /\ lastOp' = Op("block_end", miner, 0, None, {})
    /\ nops' = nops + 1
    /\ UNCHANGED <<iter, result, root2, version2, result2, ref, before, overlay, stagedRef, merge, commits>>

\* the store is an empty MemTree or an empty IAVLTree
InitTx ==
    InitOf({InitialVersion},
           {[kind |-> c, tree |-> EmptyMap] : c \in {"mem", "iavl"}}, {NoMerge})

NextTx ==
    \/ \E a \in KeysO, amount \in 1..MaxBalance : nops < MaxOpsT /\ Fund(a, amount)
    \/ \E tx \in Txs : nops < MaxOpsT /\ ExecuteBlockTx(tx)
    \/ \E miner \in KeysO : nops < MaxOpsT /\ ExecuteBlockEnd(miner)

SpecTx == InitTx /\ [][NextTx]_vars

\* ------------------------------------------------------- tree inspection
\* all nodes of a subtree
RECURSIVE Nodes(_)
Nodes(n) ==
    {n} \cup (IF n.left = None THEN {} ELSE Nodes(n.left[1]))
        \cup (IF n.right = None THEN {} ELSE Nodes(n.right[1]))

TreeNodes(rt) == IF rt = None THEN {} ELSE Nodes(rt[1])

InnerNodes(rt) == {n \in TreeNodes(rt) : ~is_leaf(n)}

\* the keys of the leaves of a subtree, left to right
RECURSIVE LeafKeys(_)
LeafKeys(n) ==
    IF n.left = None /\ n.right = None THEN <<n.key>>
    ELSE (IF n.left = None THEN <<>> ELSE LeafKeys(n.left[1])) \o
         (IF n.right = None THEN <<>> ELSE LeafKeys(n.right[1]))

SeqToSet(s) == {s[i] : i \in 1..Len(s)}

Min(S) == CHOOSE x \in S : \A y \in S : x <= y
MaxOf(S) == CHOOSE x \in S : \A y \in S : x >= y

\* the hash of a subtree computed from scratch, ignoring every cached hash
RECURSIVE FreshHash(_)
FreshHash(n) ==
    Sha256Digest(
        EncodeVarI64(n.height) \o EncodeVarI64(n.size) \o EncodeVarI64(n.version) \o
        (IF n.left = None \/ n.right = None
         THEN hash_bytes(<<n.key>>) \o hash_bytes(Sha256Digest(<<n.value>>))
         ELSE hash_bytes(FreshHash(n.left[1])) \o hash_bytes(FreshHash(n.right[1]))))

\* ------------------------------------------------------------------ claims

\* C1: after any IAVLDB sequence that ends with a save_version, closing and
\* reopening the DB on the same log gives the same get result for every key,
\* the same range output, the same version and the same root hash as before.
C1_ReopenRoundTrip ==
    (lastOp.kind = "db_reopen" /\ before.committed)
        => Snapshot(root, version, TRUE) = before

\* C2: every node with a cached hash has the hash of its current fields and
\* current children; no node keeps a hash computed for other children.
C2_CachedHashesCurrent ==
    \A n \in TreeNodes(root) : n.hash # None => n.hash[1] = FreshHash(n)

\* C3: every inner node satisfies |left.height - right.height| <= 1.
C3_Balanced ==
    \A n \in TreeNodes(root) :
        (n.left # None /\ n.right # None) => balance_factor(n) \in -1..1

\* a remove has just rebalanced with a double rotation
C3_Witness ==
    /\ lastOp.kind = "remove"
    /\ "right-left" \in lastOp.rot
    /\ root # None

\* C4: a node has height 0 exactly when both children are absent; a node of
\* height > 0 has both children, height = 1 + max of the children's heights
\* and size = sum of the children's sizes (so no unwrap of a child fails).
C4_WellFormed ==
    \A n \in TreeNodes(root) :
        /\ (n.height = 0) <=> (n.left = None /\ n.right = None)
        /\ n.height > 0 =>
            /\ n.left # None /\ n.right # None
            /\ n.height = 1 + Max(n.left[1].height, n.right[1].height)
            /\ n.size = n.left[1].size + n.right[1].size

\* a set has just rebalanced with a double rotation
C4_Witness ==
    /\ lastOp.kind = "set"
    /\ "left-right" \in lastOp.rot
    /\ root # None /\ root[1].height >= 2

\* C5: the leaves, left to right, have strictly ascending keys, and at every
\* inner node every leaf key on the left is less than every leaf key on the
\* right.
C5_Ordered ==
    /\ root # None =>
        LET ks == LeafKeys(root[1])
        IN \A i \in 1..(Len(ks) - 1) : ks[i] < ks[i + 1]
    /\ \A n \in TreeNodes(root) :
        (n.left # None /\ n.right # None) =>
            \A a \in SeqToSet(LeafKeys(n.left[1])), b \in SeqToSet(LeafKeys(n.right[1])) :
                a < b

\* a set has just rebalanced with a right-left double rotation in a tree of
\* at least four keys
C5_Witness ==
    /\ lastOp.kind = "set"
    /\ "right-left" \in lastOp.rot
    /\ root # None /\ root[1].size >= 4

\* C6: the key of every inner node is the minimum leaf key of its right subtree.
C6_Separator ==
    \A n \in TreeNodes(root) :
        (n.left # None /\ n.right # None) =>
            n.key = Min(SeqToSet(LeafKeys(n.right[1])))

\* the key just removed was the minimum of the right subtree of a node that
\* is still in the tree
C6_Witness ==
    /\ lastOp.kind = "remove"
    /\ lastOp.old # None
    /\ \E n \in InnerNodes(root) :
        /\ MaxOf(SeqToSet(LeafKeys(n.left[1]))) < lastOp.key
        /\ lastOp.key < n.key
        /\ n.height >= 2

\* C7: get(k) returns, for every key, what a reference map holds after the
\* same set/remove sequence; save_version changes no get result.
C7_RefinesMap ==
    \A k \in Keys : get(root, k) = ref[k]

\* a stored value has just been overwritten by another one, after a commit
C7_Witness ==
    /\ lastOp.kind = "set"
    /\ lastOp.old # None /\ lastOp.old # Some(lastOp.value)
    /\ version >= 1
    /\ \E k \in Keys : k # lastOp.key /\ ref[k] # None

RECURSIVE UpdateFrame(_, _, _, _, _)
UpdateFrame(old, new, k, v, ver) ==
    /\ new.height = old.height /\ new.size = old.size /\ new.key = old.key
    /\ new.version = ver /\ new.hash = None
    /\ IF old.left = None /\ old.right = None
       THEN /\ old.key = k /\ new.value = v
            /\ new.left = None /\ new.right = None
       ELSE /\ new.value = old.value
            /\ new.left # None /\ new.right # None
            /\ IF k < old.key
               THEN /\ new.right = old.right
                    /\ UpdateFrame(old.left[1], new.left[1], k, v, ver)
               ELSE /\ new.left = old.left
                    /\ UpdateFrame(old.right[1], new.right[1], k, v, ver)

\* C9: set(k, v) on a present key changes no height, size, key or child link;
\* exactly the nodes on the path from the root to k's leaf get the pending
\* version and lose their cached hash; every other node is unchanged.
C9_UpdateFrame ==
    [][(lastOp'.kind = "set" /\ lastOp'.old # None)
        => UpdateFrame(root[1], root'[1], lastOp'.key, lastOp'.value, version + 1)]_vars

\* a present key was just set in a tree of height >= 2 with cached hashes
\* left off the path
C9_Witness ==
    /\ lastOp.kind = "set"
    /\ lastOp.old # None
    /\ root # None /\ root[1].height >= 2
    /\ \E n \in TreeNodes(root) : n.hash # None

\* C10 as stated: every node's version is <= the tree's version counter in
\* every reachable state.
C10_Original ==
    \A n \in TreeNodes(root) : n.version <= version

\* C10 amended: every node's version is <= the version counter + 1 (the
\* pending version), and <= the version counter right after save_version.
C10_Amended ==
    \A n \in TreeNodes(root) :
        /\ n.version <= version + 1
        /\ lastOp.kind = "save_version" => n.version <= version

\* after a commit, a write has stamped some nodes with the pending version
\* and left others at committed versions
C10_Witness ==
    /\ lastOp.kind \in {"set", "remove"}
    /\ version >= 1
    /\ \E n \in TreeNodes(root) : n.version = version + 1
    /\ \E n \in TreeNodes(root) : n.version <= version

RefKeys == SortedKeys({k \in DOMAIN ref : ref[k] # None})

\* C16: get_by_index(i) returns the i-th smallest stored key (0-based) with
\* its value when i is less than the number of stored keys, and is absent
\* when i is at least that number or the tree is empty.
C16_GetByIndex ==
    \A i \in 0..(MaxKey + 1) :
        IAVLTree_get_by_index(root, i) =
            IF i < Len(RefKeys) THEN Some(<<RefKeys[i + 1], ref[RefKeys[i + 1]][1]>>)
            ELSE None

\* removes have left at least three keys in a tree that was rebalanced
C16_Witness ==
    /\ lastOp.kind = "remove" /\ lastOp.old # None /\ lastOp.rot # {}
    /\ Len(RefKeys) >= 3
    /\ IAVLTree_get_by_index(root, Len(RefKeys) - 1) # None
    /\ IAVLTree_get_by_index(root, Len(RefKeys)) = None

\* C17: get_with_index(k) returns the value stored under k (absent if k is
\* not stored) together with the number of stored keys strictly smaller
\* than k, also for keys below or above every stored key; on the empty tree
\* it returns (absent, 0).
C17_GetWithIndex ==
    \A k \in 0..(MaxKey + 1) :
        IAVLTree_get_with_index(root, k) =
            <<IF k \in DOMAIN ref THEN ref[k] ELSE None,
              Cardinality({j \in DOMAIN ref : ref[j] # None /\ j < k})>>

\* a tree of at least three keys with a gap: an absent key between stored
\* keys is reported with a positive index
C17_Witness ==
    /\ Len(RefKeys) >= 3
    /\ \E k \in Keys :
        /\ ref[k] = None
        /\ IAVLTree_get_with_index(root, k)[2] \in 1..(Len(RefKeys) - 1)
    /\ IAVLTree_get_with_index(root, MaxKey + 1) = <<None, Len(RefKeys)>>

\* every start or end bound with a key of 0..MaxKeyR+1
AllBounds ==
    {Unbounded} \cup {Included(k) : k \in 0..(MaxKeyR + 1)}
                \cup {Excluded(k) : k \in 0..(MaxKeyR + 1)}

\* RangeBounds::contains
InBounds(lo, hi, k) ==
    /\ (lo.kind = "Included" => lo.key <= k) /\ (lo.kind = "Excluded" => lo.key < k)
    /\ (hi.kind = "Included" => k <= hi.key) /\ (hi.kind = "Excluded" => k < hi.key)

\* the entries of the reference map within the bounds, ascending
RefRange(lo, hi) ==
    LET ks == SortedKeys({k \in DOMAIN ref : ref[k] # None /\ InBounds(lo, hi, k)})
    IN [i \in 1..Len(ks) |-> <<ks[i], ref[ks[i]][1]>>]

Reverse(s) == [i \in 1..Len(s) |-> s[Len(s) + 1 - i]]

\* C15: for every tree and every combination of start and end bounds, the
\* range iterator driven forward yields exactly the entries within both
\* bounds in ascending key order, and driven backward the same entries in
\* descending order; no in-range leaf is skipped by the pruning.
C15_RangeBounds ==
    \A lo \in AllBounds, hi \in AllBounds :
        /\ CollectForward(TreeIterator_new(root), lo, hi) = RefRange(lo, hi)
        /\ CollectBackward(TreeIterator_new(root), lo, hi) = Reverse(RefRange(lo, hi))

\* a tree of height two or more read between an inclusive start and an
\* exclusive end that cut off entries on both sides and keep at least two
C15_Witness ==
    /\ root # None /\ root[1].height >= 2
    /\ \E a \in KeysR, b \in KeysR :
        /\ ref[a] # None /\ ref[b] # None
        /\ Len(CollectForward(TreeIterator_new(root), Included(a), Excluded(b))) >= 2
        /\ Len(CollectForward(TreeIterator_new(root), Unbounded, Excluded(a))) >= 1
        /\ Len(CollectBackward(TreeIterator_new(root), Included(b), Unbounded)) >= 1

\* C19: a direct set or remove on the IAVLDB always ends in a fatal error,
\* never in a normal return, and changes neither the tree nor the pending
\* batch nor the log.
C19_DirectWriteFatal ==
    [][lastOp'.kind \in {"db_set", "db_remove"} =>
        (fatal' /\ UNCHANGED <<root, version, pending, wal>>)]_vars

\* a direct remove has been called on a DB with a tree, a pending batch and
\* a log that are not empty
C19_Witness ==
    /\ lastOp.kind = "db_remove" /\ fatal
    /\ root # None /\ pending # <<>> /\ wal # <<>>

\* C20: every save_version appends exactly one entry to the log, whose
\* version is the tree's version after the increment and whose changes are
\* the pending batch of that moment, and leaves the pending batch empty; no
\* other operation appends to or alters the log; so the versions of the log
\* entries are 1, 2, ..., n in append order.
C20_LogAppend ==
    /\ [](\A i \in 1..Len(wal) : wal[i].version = i)
    /\ [][IF lastOp'.kind = "db_save_version"
           THEN /\ wal' = Append(wal, [version |-> version', changes |-> pending])
                /\ pending' = <<>>
           ELSE wal' = wal]_vars

\* a second entry has been appended after the DB was reopened, with a batch
\* that was pending
C20_Witness ==
    /\ lastOp.kind = "db_save_version"
    /\ Len(wal) = 2 /\ wal[2].changes # <<>>
    /\ before.version = 1

\* the keys of a sequence of items
ItemKeys(items) == {items[i][1] : i \in 1..Len(items)}

\* the item of a sequence of items with the given key
ItemAt(items, k) == items[CHOOSE i \in 1..Len(items) : items[i][1] = k]

\* what the merge of the two inputs has to yield, ascending: the first
\* input's entries with a value, and the second input's entries whose key has
\* no entry in the first
MergeExpected ==
    LET ks == SortedKeys({k \in ItemKeys(merge.in1) : ItemAt(merge.in1, k)[2] # None}
                         \cup (ItemKeys(merge.in2) \ ItemKeys(merge.in1)))
    IN [i \in 1..Len(ks) |->
            IF ks[i] \in ItemKeys(merge.in1)
            THEN <<ks[i], ItemAt(merge.in1, ks[i])[2][1]>>
            ELSE ItemAt(merge.in2, ks[i])]

\* the run is over and every call was made in the given direction
MergeFinished(back) ==
    /\ merge.calls # <<>> /\ Back(merge.calls).item = None
    /\ \A i \in 1..Len(merge.calls) : merge.calls[i].back = back

\* the items the calls yielded, in call order
MergeYielded == [i \in 1..(Len(merge.calls) - 1) |-> merge.calls[i].item[1]]

\* C14: over strictly ascending inputs, MergeIter driven only forward yields
\* in ascending key order, and driven only backward in descending key order,
\* exactly every overlay entry that carries a value and every base entry whose
\* key has no overlay entry; a tombstone is never emitted and hides the base
\* entry of its key; on equal keys the overlay's value is yielded.
C14_MergeIter ==
    /\ MergeFinished(FALSE) => MergeYielded = MergeExpected
    /\ MergeFinished(TRUE) => MergeYielded = Reverse(MergeExpected)

\* a backward-only run is over whose inputs had a tombstone over a base key,
\* an overlay value over a base key and a key of the base alone
C14_Witness ==
    /\ MergeFinished(TRUE)
    /\ \E k \in ItemKeys(merge.in1) \cap ItemKeys(merge.in2) :
           ItemAt(merge.in1, k)[2] = None
    /\ \E k \in ItemKeys(merge.in1) \cap ItemKeys(merge.in2) :
           ItemAt(merge.in1, k)[2] # None
    /\ ItemKeys(merge.in2) \ ItemKeys(merge.in1) # {}
    /\ Len(MergeYielded) = 2

\* the staged outcome the reference expects for a key: the parent's answer
\* overridden by the last call staged on the key
StagedModel(k) ==
    IF stagedRef[k] = None THEN KVStore_get(ParentStore, k)
    ELSE IF stagedRef[k][1].op = "set" THEN Some(stagedRef[k][1].value)
    ELSE None

\* C11: Overlay.get(k) is the parent overridden by the latest staged entry:
\* the staged value if the last staged call on k was a set, absent if it was
\* a remove (even when the parent holds k), the parent's get(k) if k was
\* never staged.
C11_OverlayGet ==
    \A k \in KeysO : Overlay_get(OverlayState, k) = StagedModel(k)

\* a key the parent holds was set and then removed on the overlay, while
\* another key is staged with a value that differs from the parent's
C11_Witness ==
    /\ lastOp.kind = "ov_remove"
    /\ KVStore_get(ParentStore, lastOp.key) # None
    /\ overlay.tree[lastOp.key] = Some(None)
    /\ \E k \in KeysO :
        /\ overlay.tree[k] # None /\ overlay.tree[k][1] # None
        /\ KVStore_get(ParentStore, k) # None
        /\ KVStore_get(ParentStore, k) # overlay.tree[k][1]

\* every start or end bound with a key of 0..MaxKeyO+1
OvBounds ==
    {Unbounded} \cup {Included(k) : k \in 0..(MaxKeyO + 1)}
                \cup {Excluded(k) : k \in 0..(MaxKeyO + 1)}

\* a flush step leaves the parent answering every get, and every range with
\* the given bounds, as the overlay answered before the step, and leaves the
\* staging map empty; a flush of an empty staging map changes nothing
FlushFidelity(bounds) ==
    lastOp'.kind = "ov_flush" =>
        /\ \A k \in KeysO : KVStore_get(ParentStore', k) = Overlay_get(OverlayState, k)
        /\ \A b \in bounds :
               KVStore_range(ParentStore', b[1], b[2]) = Overlay_range(OverlayState, b[1], b[2])
        /\ overlay'.tree = EmptyMap
        /\ overlay.tree = EmptyMap => UNCHANGED <<mem, root, version>>

C13_ParentFrame ==
    [][lastOp'.kind \in {"ov_set", "ov_remove", "ov_drop"} =>
        /\ UNCHANGED <<mem, root, version, pending, wal>>
        /\ \A k \in KeysO : KVStore_get(ParentStore', k) = KVStore_get(ParentStore, k)]_vars

\* an overlay over an IAVLTree that holds keys was dropped after a flush
C13_Witness ==
    /\ lastOp.kind = "ov_drop"
    /\ overlay.kind = "iavl" /\ root # None /\ root[1].size = MaxKeyO
    /\ nops >= 4

\* C18: an Overlay whose parent is an IAVLDB can be flushed: flush delivers
\* every staged entry to the DB and never ends in the fatal error of the DB's
\* direct set / remove; after flush, save_version, close and reopen, every get
\* answers as it did before the close (a key that was set is returned, a key
\* that was set and then removed is absent).
C18_FlushOverDB ==
    [][/\ lastOp'.kind = "ov_flush" =>
            /\ ~fatal'
            /\ \A k \in KeysO : get(root', k) = Overlay_get(OverlayState, k)
       /\ (lastOp'.kind = "db_reopen" /\ lastOp.kind = "db_save_version") =>
            \A k \in KeysO : get(root', k) = get(root, k)]_vars

\* the version field of the last log entry, 0 for an empty log
LastLogged(log) == IF log = <<>> THEN 0 ELSE log[Len(log)].version

\* C21: after IAVLDB::new has replayed the log, the tree's version counter
\* equals the version field of the last log entry (0 for an empty log), and
\* the next save_version logs that version + 1.
C21_ReplayVersion ==
    /\ [](lastOp.kind = "db_reopen" => version = LastLogged(wal))
    /\ [][(lastOp.kind = "db_reopen" /\ lastOp'.kind = "db_save_version") =>
            LastLogged(wal') = LastLogged(wal) + 1]_vars

\* a log of two entries has been replayed into a tree that holds a key
C21_Witness ==
    /\ lastOp.kind = "db_reopen"
    /\ Len(wal) = 2 /\ version = 2
    /\ before.version = 2 /\ root # None

\* no key is stored
HoldsNoKeys == \A k \in Keys : ref[k] = None

\* C22: whenever the tree holds no keys, freshly created or after every key
\* that was set has been removed, and at any version, root_hash and
\* save_version return the SHA-256 digest of the empty byte string.
C22_EmptyHash ==
    (lastOp.kind \in {"root_hash", "save_version"} /\ HoldsNoKeys) =>
        /\ result = Some(Sha256Digest(<<>>))
        /\ result2 = Some(Sha256Digest(<<>>))

\* a tree that was committed with a key in it has been emptied and committed
\* again, at version 2 and at version InitialVersion + 2
C22_Witness ==
    /\ lastOp.kind = "save_version" /\ HoldsNoKeys
    /\ Len(commits) = 2 /\ commits[1].items # <<>>
    /\ version = 2 /\ version2 = InitialVersion + 2

\* C23: remove(k) on a tree that does not contain k leaves the whole tree as it
\* was: no node's version, cached hash, key, height, size or child link
\* changes, the version counter stays, and the root hash a save_version would
\* return is the one it would have returned without the remove.
C23_RemoveAbsent ==
    [][(lastOp'.kind = "remove" /\ ref[lastOp'.key] = None) =>
            /\ root' = root
            /\ root2' = root2
            /\ version' = version /\ version2' = version2
            /\ root_hash(root')[2] = root_hash(root)[2]]_vars

\* an absent key has been removed from a tree of three or more keys whose
\* hashes were cached, and the root still has its cached hash
C23_Witness ==
    /\ lastOp.kind = "remove" /\ lastOp.old = None
    /\ root # None /\ root[1].size >= 3 /\ root[1].hash # None
    /\ root[1].left[1].hash # None /\ root[1].right[1].hash # None

\* the sibling subtree of the leaf that holds key, in a subtree rooted at an
\* inner node that contains key
RECURSIVE SiblingOf(_, _)
SiblingOf(node, key) ==
    LET goLeft == key < node.key
        child == IF goLeft THEN node.left[1] ELSE node.right[1]
        other == IF goLeft THEN node.right[1] ELSE node.left[1]
    IN IF is_leaf(child) THEN other ELSE SiblingOf(child, key)

\* the leaf that holds key hangs directly under the root
LeafUnderRoot(rt, key) ==
    /\ rt # None /\ ~is_leaf(rt[1])
    /\ is_leaf(IF key < rt[1].key THEN rt[1].left[1] ELSE rt[1].right[1])

\* three consecutive commits with one operation between each two: a one-key
\* tree, the same tree with a second key, and the one-key tree again
RoundTrip(a, b, c) ==
    /\ b.at = a.at + 2 /\ c.at = b.at + 2
    /\ Len(a.items) = 1 /\ Len(b.items) = 2
    /\ a.items[1] \in SeqToSet(b.items)
    /\ c.items = a.items

\* C24: when remove deletes a leaf, the sibling subtree of that leaf takes
\* the place of the parent inner node and every node of it keeps its version
\* and cached hash; and committing a one-key tree, setting a second key,
\* committing, removing the second key and committing again returns the first
\* committed root hash.
C24_SiblingKept ==
    /\ [][(/\ lastOp'.kind = "remove" /\ ref[lastOp'.key] # None
            /\ root # None /\ ~is_leaf(root[1])) =>
              /\ SiblingOf(root[1], lastOp'.key) \in TreeNodes(root')
              /\ root'[1].size = root[1].size - 1
              /\ LeafUnderRoot(root, lastOp'.key) =>
                    root' = Some(SiblingOf(root[1], lastOp'.key))]_vars
    /\ [](\A i \in 1..(Len(commits) - 2) :
             RoundTrip(commits[i], commits[i + 1], commits[i + 2]) =>
                 commits[i + 2].hash = commits[i].hash)

\* the one-key tree has been committed, extended, committed, cut back to the
\* one key and committed again, and the key's leaf is still the one of the
\* first commit
C24_Witness ==
    /\ Len(commits) = 3
    /\ RoundTrip(commits[1], commits[2], commits[3])
    /\ lastOp.kind = "save_version"
    /\ root # None /\ is_leaf(root[1]) /\ root[1].version = 1

\* between two consecutive commits exactly one operation ran, and it set a key
\* that the first commit stored to another value
UpdateBetween(a, b) ==
    /\ b.at = a.at + 2
    /\ ItemKeys(a.items) = ItemKeys(b.items)
    /\ a.items # b.items

\* C25: setting an already committed key to a different value and calling
\* save_version returns a root hash different from the previously committed
\* one, and get for that key then returns the new value.
C25_UpdateChangesHash ==
    \A i \in 1..(Len(commits) - 1) :
        UpdateBetween(commits[i], commits[i + 1]) =>
            /\ commits[i + 1].hash # commits[i].hash
            /\ (i + 1 = Len(commits) /\ lastOp.kind = "save_version") =>
                   \A k \in KeysV :
                       /\ get(root, k) = ref[k]
                       /\ k \in ItemKeys(commits[i].items) =>
                              get(root, k) = Some(ItemAt(commits[i + 1].items, k)[2])

\* a committed tree of two keys had one key set to another value and was
\* committed again just now
C25_Witness ==
    /\ Len(commits) = 2 /\ lastOp.kind = "save_version"
    /\ UpdateBetween(commits[1], commits[2])
    /\ Len(commits[1].items) = 2

\* C26: the default write_batch on an IAVLTree is the same as a set (entry with
\* a value) or a remove (entry without) for each entry in the order given: the
\* tree, its node versions and its hashes equal those of the single calls, and
\* when a batch names a key more than once the last entry for it decides.
C26_BatchEquivalence ==
    /\ root = root2
    /\ version = version2
    /\ result = result2
    /\ \A k \in KeysB : get(root, k) = ref[k]

\* a tree that held another key has taken a batch of two different entries
\* for one key, the last of them a set
C26_Witness ==
    /\ lastOp.kind = "write_batch"
    /\ lastOp.old = <<2, TRUE>>
    /\ root # None /\ root[1].size = 2

\* what the store underneath execute_block answers for a key
Stored(k) == KVStore_get(ParentStore, k)

\* C27: in execute_block each transaction is all-or-nothing for the store: a
\* transaction for which execute_tx fails leaves every key of the store as it
\* was, and one that succeeds has every write it made to its snapshot in the
\* store, and nothing else changed, before the next transaction runs.
C27_TxAllOrNothing ==
    [][lastOp'.kind = "block_tx" =>
         IF lastOp'.old.fee = None \/ lastOp'.old.aborted
         THEN \A k \in KeysO : Stored(k)' = Stored(k)
         ELSE \A k \in KeysO :
                  Stored(k)' = IF lastOp'.old.staged[k] # None
                               THEN lastOp'.old.staged[k][1]
                               ELSE Stored(k)]_vars

\* a transfer between two accounts has succeeded in a block that had already
\* collected a fee, and both accounts are in the store
C27_Witness ==
    /\ lastOp.kind = "block_tx"
    /\ lastOp.old.fee # None /\ ~lastOp.old.aborted
    /\ \A k \in 1..2 : lastOp.old.staged[k] # None /\ Stored(k) = lastOp.old.staged[k][1]
    /\ reward >= 1

\* a node's own fields and, for each child link, the keys stored below it
Shape(n) ==
    [key |-> n.key, value |-> n.value, height |-> n.height, size |-> n.size,
     left |-> IF n.left = None THEN <<>> ELSE LeafKeys(n.left[1]),
     right |-> IF n.right = None THEN <<>> ELSE LeafKeys(n.right[1])]

\* the nodes of the tree after that no node of the tree before matches in
\* key, value, height, size and child links
ChangedNodes(rtBefore, rtAfter) ==
    {n \in TreeNodes(rtAfter) :
        \A m \in TreeNodes(rtBefore) : Shape(m) # Shape(n)}

\* C28: after a set or remove at pending version V' = version + 1, every node
\* whose left or right child link, height, size, key or value differs from
\* before the operation, the nodes moved by single and double rotations in
\* insertion and in deletion included, carries version V'.
C28_ChangedNodesStamped ==
    [][lastOp'.kind \in {"set", "remove"} =>
         \A n \in ChangedNodes(root, root') : n.version = version + 1]_vars

\* a subtree with every cached hash taken out
RECURSIVE WithoutHashes(_)
WithoutHashes(n) ==
    [n EXCEPT !.hash = None,
              !.left = IF n.left = None THEN None ELSE Some(WithoutHashes(n.left[1])),
              !.right = IF n.right = None THEN None ELSE Some(WithoutHashes(n.right[1]))]

TreeWithoutHashes(rt) == IF rt = None THEN None ELSE Some(WithoutHashes(rt[1]))

\* C29: IAVLTree::save_version increases the version counter by exactly 1,
\* changes no key, value, child link, height, size or node version, and leaves
\* every node reachable from the root with a cached hash; no operation
\* decreases the version counter.
C29_SaveVersionFrame ==
    [][/\ version' >= version
       /\ lastOp'.kind = "save_version" =>
            /\ version' = version + 1
            /\ TreeWithoutHashes(root') = TreeWithoutHashes(root)
            /\ \A n \in TreeNodes(root') : n.hash # None]_vars

\* the second save_version has hashed a tree of three or more keys in which
\* some nodes date from the first version and some from the second
C29_Witness ==
    /\ lastOp.kind = "save_version" /\ version = 2
    /\ root # None /\ root[1].size >= 3
    /\ \E n, m \in TreeNodes(root) : n.version = 1 /\ m.version = 2

\* what the last completed save_version returned and left stored; a DB that
\* never completed one is the new, empty DB
LastCommitted ==
    IF commits = <<>>
    THEN [hash |-> Sha256Digest(<<>>), version |-> 0, items |-> <<>>]
    ELSE [hash |-> commits[Len(commits)].hash,
          version |-> commits[Len(commits)].version,
          items |-> commits[Len(commits)].items]

\* C30: when the process stops after an IAVLDB write_batch and before the
\* following save_version has appended its log entry, reopening the DB gives
\* the state of the last completed save_version: the same get results, version
\* and root hash, with nothing of the uncommitted batch.
C30_CrashRecovery ==
    [][(lastOp.kind = "db_write_batch" /\ lastOp'.kind = "db_reopen") =>
         /\ version' = LastCommitted.version
         /\ root_hash(root')[2] = LastCommitted.hash
         /\ \A k \in KeysL :
                get(root', k) = IF k \in ItemKeys(LastCommitted.items)
                                THEN Some(ItemAt(LastCommitted.items, k)[2])
                                ELSE None]_vars

\* the size field of the root, 0 for the empty tree
RootSize(rt) == IF rt = None THEN 0 ELSE rt[1].size

\* C31: after any sequence of set and remove the root's size is the number of
\* keys stored: a set of a new key adds exactly 1, a set of a stored key
\* leaves it, a remove of a stored key takes exactly 1 and a remove of an
\* absent key leaves it.
C31_RootSize ==
    /\ [](RootSize(root) = Cardinality({k \in Keys : ref[k] # None}))
    /\ [][/\ lastOp'.kind = "set" =>
              RootSize(root') = RootSize(root) + (IF ref[lastOp'.key] = None THEN 1 ELSE 0)
          /\ lastOp'.kind = "remove" =>
              RootSize(root') = RootSize(root) - (IF ref[lastOp'.key] = None THEN 0 ELSE 1)]_vars

\* a remove of one of five stored keys has rebalanced the tree, and the root
\* counts the four that are left
C31_Witness ==
    /\ lastOp.kind = "remove" /\ lastOp.old # None /\ lastOp.rot # {}
    /\ RootSize(root) = 4

\* the items the calls of one direction returned, in call order
IterYielded(back) ==
    LET sel == SelectSeq(iter.calls, LAMBDA c : c.back = back /\ c.item # None)
    IN [i \in 1..Len(sel) |-> sel[i].item[1]]

\* C32: for one tree range iterator driven by any interleaving of next and
\* next_back calls, the items returned by next are in ascending key order,
\* the items returned by next_back are in descending key order, every item
\* returned by next has a smaller key than every item returned by next_back,
\* and no in-range entry is returned twice.
C32_DoubleEnded ==
    LET f == IterYielded(FALSE)
        b == IterYielded(TRUE)
    IN /\ \A i, j \in 1..Len(f) : i < j => f[i][1] < f[j][1]
       /\ \A i, j \in 1..Len(b) : i < j => b[i][1] > b[j][1]
       /\ \A i \in 1..Len(f), j \in 1..Len(b) : f[i][1] < b[j][1]
       /\ \A i, j \in 1..Len(f \o b) : i # j => (f \o b)[i][1] # (f \o b)[j][1]

\* the items the MergeIter calls of one direction returned, in call order
MergeYieldedBy(back) ==
    LET sel == SelectSeq(merge.calls, LAMBDA c : c.back = back /\ c.item # None)
    IN [i \in 1..Len(sel) |-> sel[i].item[1]]

\* C33: for one MergeIter over strictly ascending overlay and base streams,
\* driven by any interleaving of next and next_back calls until a call returns
\* nothing, the items from next followed by the reversed items from next_back
\* form exactly the forward-only merge result: no key is emitted twice, no key
\* hidden by a tombstone is emitted, and on a key present in both streams only
\* the overlay value is emitted.
C33_MergeBothEnds ==
    (merge.calls # <<>> /\ Back(merge.calls).item = None)
        => MergeYieldedBy(FALSE) \o Reverse(MergeYieldedBy(TRUE)) = MergeExpected

\* a run driven from both ends is over: each end yielded an item, a tombstone
\* hid a base key and an overlay value replaced a base value
C33_Witness ==
    /\ merge.calls # <<>> /\ Back(merge.calls).item = None
    /\ MergeYieldedBy(FALSE) # <<>> /\ MergeYieldedBy(TRUE) # <<>>
    /\ merge.calls[1].back /\ ~merge.calls[2].back
    /\ \E k \in ItemKeys(merge.in1) \cap ItemKeys(merge.in2) :
           ItemAt(merge.in1, k)[2] = None
    /\ \E k \in ItemKeys(merge.in1) \cap ItemKeys(merge.in2) :
           ItemAt(merge.in1, k)[2] # None

\* the calls that return the root hash
HashCalls == {"root_hash", "save_version"}

\* C34: the root hash depends on the node graph and not on the tree's version
\* counter: a root_hash or save_version call that follows a root_hash or
\* save_version call with no set or remove in between returns the hash the
\* earlier call returned, so a save_version without writes since the previous
\* save_version repeats its hash, and every root_hash between two writes
\* returns the value the next save_version returns.
C34_HashIgnoresCounter ==
    [][(lastOp.kind \in HashCalls /\ lastOp'.kind \in HashCalls) =>
          /\ result' = result
          /\ result2' = result2]_vars

\* two set calls built a tree of two keys and two save_version calls in a
\* row followed, moving the counters to 2 and to InitialVersion + 2
C34_Witness ==
    /\ lastOp.kind = "save_version"
    /\ version = 2 /\ version2 = InitialVersion + 2
    /\ nops = 4
    /\ RootSize(root) = 2

\* the account the store holds for an address
AccountOf(a) == load_account_or_default(Stored(store_key(a)))

\* f[1] + ... + f[n]
RECURSIVE SumUpTo(_, _)
SumUpTo(f, n) == IF n = 0 THEN 0 ELSE f[n] + SumUpTo(f, n - 1)

\* the step is one transaction of execute_block on which execute_tx, given
\* tx, succeeded and was flushed to the store
TxSucceeds(tx) ==
    LET x == execute_tx(Overlay_new(ParentStore), tx)
    IN /\ lastOp'.kind = "block_tx"
       /\ ~lastOp'.old.aborted
       /\ x.fee # None
       /\ lastOp'.old.fee = x.fee
       /\ lastOp'.old.staged = x.ov.tree

\* C35: a successful execute_tx conserves funds: the sum of all account
\* balances in the store after the call equals the sum before minus exactly
\* the returned fee, the sender's nonce increases by exactly 1, and the
\* transferred value leaves the sender and reaches the recipient, also when the
\* recipient address equals the sender address.
C35_FundsConserved ==
    [][\A tx \in LegacyTxs :
         TxSucceeds(tx) =>
           LET sender == tx.signer[1]
               fee == tx.gas_price * tx.gas_limit
           IN /\ SumUpTo([a \in KeysO |-> AccountOf(a).balance'], MaxKeyO)
                   = SumUpTo([a \in KeysO |-> AccountOf(a).balance], MaxKeyO) - fee
              /\ AccountOf(sender).nonce' = AccountOf(sender).nonce + 1
              /\ tx.value > 0 =>
                   IF tx.to[1] = sender
                   THEN AccountOf(sender).balance' = AccountOf(sender).balance - fee
                   ELSE /\ AccountOf(sender).balance'
                             = AccountOf(sender).balance - fee - tx.value
                        /\ AccountOf(tx.to[1]).balance'
                             = AccountOf(tx.to[1]).balance + tx.value]_vars
====
